---- MODULE Spec2Model ----
(***************************************************************************)
(* Model of the heuristic scoring rule HeroCTARule (hero-cta.ts) and of    *)
(* the domain types it works on (types/index.ts), of the scoring engine    *)
(* around it, and of the TDD tooling (tdd-workflow.js, check-coverage.js,  *)
(* TDDTestRunner, test-runner.sh), whose processes share the variable      *)
(* proc.                                                                   *)
(*                                                                         *)
(* JavaScript objects are records; a property that is absent from an       *)
(* object is a field absent from the record's DOMAIN.  Reading a property  *)
(* of an absent object raises a TypeError: analyze then has no result and  *)
(* the call is recorded as [threw |-> "TypeError"].                        *)
(***************************************************************************)
EXTENDS Integers, Sequences, FiniteSets, TLC

VARIABLES page, ret, now, calls, registry, evals, site, proc

vars == <<page, ret, now, calls, registry, evals, site, proc>>

\* the state of the scoring engine around the rule
engineVars == <<registry, evals, site>>

\* the variables of the rule under test and of its callers
ruleVars == <<page, ret, now, calls>>

\* no script of the test tooling is running
NoProcess == [pc |-> "none"]

---------------------------------------------------------------------------
(* Bounds of the model *)

\* longest ctaButtons list that is enumerated
MaxButtons == 2

\* last reading of the millisecond clock (Date.now())
MaxClock == 2

\* number of analyze calls whose results are kept side by side
MaxCalls == 2

\* most files a coverage summary reports on
MaxFiles == 2

\* most command line arguments given to the test runner
MaxArgs == 2

---------------------------------------------------------------------------
(* types/index.ts *)

PageTypeEnum == {"home", "product", "collection", "cart", "checkout"}

SeverityEnum == {"high", "med", "low"}

null == [null |-> TRUE]

\* sizes around the prominence thresholds, and the two sizes of the test suite
Sizes ==
  { [width |-> 80,  height |-> 20],
    [width |-> 119, height |-> 35],
    [width |-> 120, height |-> 34],
    [width |-> 120, height |-> 35] }

CTAButtonSchema ==
  [ text      : {"Shop Now"},
    selector  : {".hero-cta"},
    position  : {[top |-> 300, left |-> 400]},
    size      : Sizes,
    prominent : BOOLEAN ]

RECURSIVE SeqsUpTo(_, _)
SeqsUpTo(S, n) ==
  IF n = 0 THEN {<<>>}
  ELSE LET shorter == SeqsUpTo(S, n - 1)
       IN  shorter \cup
           {Append(s, x) : s \in {t \in shorter : Len(t) = n - 1}, x \in S}

AboveFoldHeights == {600, 800}

\* well-formed metrics (PageMetricsSchema)
PageMetricsSchema ==
  [ aboveFold   : [ ctaButtons : SeqsUpTo(CTAButtonSchema, MaxButtons),
                    height     : AboveFoldHeights ],
    performance : {[loadTime |-> 1000]} ]

\* metrics objects that do not satisfy the schema: aboveFold is absent,
\* or aboveFold.ctaButtons is absent
MalformedMetrics ==
  { [performance |-> [loadTime |-> 1000]] }
  \cup { [aboveFold |-> [height |-> h], performance |-> [loadTime |-> 1000]]
         : h \in AboveFoldHeights }

PageIds == {"test-page-1", "test-page-2"}

\* Page objects a caller can hand to a rule; the last set has no metrics
Page ==
  [ id : PageIds, crawlId : {"test-crawl-1"}, type : PageTypeEnum,
    metrics : PageMetricsSchema, findings : {<<>>} ]
  \cup
  [ id : PageIds, crawlId : {"test-crawl-1"}, type : PageTypeEnum,
    metrics : MalformedMetrics, findings : {<<>>} ]
  \cup
  [ id : PageIds, crawlId : {"test-crawl-1"}, type : PageTypeEnum,
    findings : {<<>>} ]

Has(obj, key) == key \in DOMAIN obj

---------------------------------------------------------------------------
(* hero-cta.ts: HeroCTARule *)

\* variant: collection pages are taken as applicable too
APPLICABLE_PAGE_TYPES_withCollection == {"home", "product", "collection"}

APPLICABLE_PAGE_TYPES == {"home", "product"}

\* WEAK_CTA_SCORE_RATIO = 0.47, as the fraction 47 / 100
WEAK_CTA_SCORE_RATIO_NUM == 47

WEAK_CTA_SCORE_RATIO_DEN == 100

MIN_PROMINENT_WIDTH == 120

MIN_PROMINENT_HEIGHT == 35

ruleId == "hero_cta_detection"

maxScore == 15

\* variant: strict comparisons against the minimum size
isProminentCTA_strict(cta) ==
  /\ cta.size.width > MIN_PROMINENT_WIDTH
  /\ cta.size.height > MIN_PROMINENT_HEIGHT
  /\ cta.prominent

isProminentCTA(cta) ==
  /\ cta.size.width >= MIN_PROMINENT_WIDTH
  /\ cta.size.height >= MIN_PROMINENT_HEIGHT
  /\ cta.prominent

isApplicablePageType(pageType) == pageType \in APPLICABLE_PAGE_TYPES

\* variant: a skipped rule is given full credit
createSkippedResult_fullScore ==
  [ passed  |-> FALSE,
    score   |-> maxScore,
    finding |-> null,
    skipped |-> TRUE,
    reason  |-> "Rule only applies to home and product pages" ]

createSkippedResult ==
  [ passed  |-> FALSE,
    score   |-> 0,
    finding |-> null,
    skipped |-> TRUE,
    reason  |-> "Rule only applies to home and product pages" ]

\* variant: the creation time is also written into the evidence
createFinding_stamped(p, findingRuleId, severity, evidence, t) ==
  [ id       |-> <<findingRuleId, p.id, t>>,
    pageId   |-> p.id,
    ruleId   |-> findingRuleId,
    severity |-> severity,
    evidence |-> [createdAt |-> t] @@ evidence ]

\* variant: the finding is filed under the rule's own ruleId
createFinding_ownRuleId(p, findingRuleId, severity, evidence, t) ==
  [ id       |-> <<findingRuleId, p.id, t>>,
    pageId   |-> p.id,
    ruleId   |-> ruleId,
    severity |-> severity,
    evidence |-> evidence ]

\* id: `${ruleId}-${page.id}-${Date.now()}`, kept as its three components
createFinding(p, findingRuleId, severity, evidence, t) ==
  [ id       |-> <<findingRuleId, p.id, t>>,
    pageId   |-> p.id,
    ruleId   |-> findingRuleId,
    severity |-> severity,
    evidence |-> evidence ]

\* variant: the evidence names the home page whatever the page's type
createMissingCTAResult_homeOnly(p, t) ==
  [ passed  |-> FALSE,
    score   |-> 0,
    finding |-> createFinding(p, "hero_cta_missing", "high",
                  [ ctaCount        |-> 0,
                    pageType        |-> "home",
                    aboveFoldHeight |-> p.metrics.aboveFold.height ], t) ]

createMissingCTAResult(p, t) ==
  [ passed  |-> FALSE,
    score   |-> 0,
    finding |-> createFinding(p, "hero_cta_missing", "high",
                  [ ctaCount        |-> 0,
                    pageType        |-> p.type,
                    aboveFoldHeight |-> p.metrics.aboveFold.height ], t) ]

createSuccessResult ==
  [ passed  |-> TRUE,
    score   |-> maxScore,
    finding |-> null ]

\* variant: Math.floor(this.maxScore / 0.47)
createWeakCTAResult_divided(p, ctaButtons, t) ==
  [ passed  |-> FALSE,
    score   |-> (maxScore * WEAK_CTA_SCORE_RATIO_DEN) \div WEAK_CTA_SCORE_RATIO_NUM,
    finding |-> createFinding(p, "hero_cta_weak", "med",
                  [ ctaCount       |-> Len(ctaButtons),
                    prominentCount |-> 0,
                    weakCTAs       |-> [ i \in 1..Len(ctaButtons) |->
                                         [ text      |-> ctaButtons[i].text,
                                           size      |-> ctaButtons[i].size,
                                           prominent |-> ctaButtons[i].prominent ] ] ],
                  t) ]

\* variant: the weak result is marked as passed
createWeakCTAResult_passed(p, ctaButtons, t) ==
  [ passed  |-> TRUE,
    score   |-> (maxScore * WEAK_CTA_SCORE_RATIO_NUM) \div WEAK_CTA_SCORE_RATIO_DEN,
    finding |-> createFinding(p, "hero_cta_weak", "med",
                  [ ctaCount       |-> Len(ctaButtons),
                    prominentCount |-> 0,
                    weakCTAs       |-> [ i \in 1..Len(ctaButtons) |->
                                         [ text      |-> ctaButtons[i].text,
                                           size      |-> ctaButtons[i].size,
                                           prominent |-> ctaButtons[i].prominent ] ] ],
                  t) ]

\* Math.floor(this.maxScore * 0.47)
createWeakCTAResult(p, ctaButtons, t) ==
  [ passed  |-> FALSE,
    score   |-> (maxScore * WEAK_CTA_SCORE_RATIO_NUM) \div WEAK_CTA_SCORE_RATIO_DEN,
    finding |-> createFinding(p, "hero_cta_weak", "med",
                  [ ctaCount       |-> Len(ctaButtons),
                    prominentCount |-> 0,
                    weakCTAs       |-> [ i \in 1..Len(ctaButtons) |->
                                         [ text      |-> ctaButtons[i].text,
                                           size      |-> ctaButtons[i].size,
                                           prominent |-> ctaButtons[i].prominent ] ] ],
                  t) ]

TypeError == [threw |-> "TypeError"]

IsProminentFlag(cta) == cta.prominent

\* variant: only the first button of the list is looked at
analyze_firstOnly(p, t) ==
  IF ~isApplicablePageType(p.type) THEN createSkippedResult
  ELSE IF ~Has(p, "metrics") THEN TypeError
  ELSE IF ~Has(p.metrics, "aboveFold") THEN TypeError
  ELSE IF ~Has(p.metrics.aboveFold, "ctaButtons") THEN TypeError
  ELSE LET ctaButtons == p.metrics.aboveFold.ctaButtons
       IN  IF Len(ctaButtons) = 0 THEN createMissingCTAResult(p, t)
           ELSE IF ctaButtons[1].prominent THEN createSuccessResult
           ELSE createWeakCTAResult(p, ctaButtons, t)

\* variant: the metrics are read before the page type is looked at
analyze_metricsFirst(p, t) ==
  IF ~Has(p, "metrics") THEN TypeError
  ELSE IF ~Has(p.metrics, "aboveFold") THEN TypeError
  ELSE IF ~Has(p.metrics.aboveFold, "ctaButtons") THEN TypeError
  ELSE LET ctaButtons    == p.metrics.aboveFold.ctaButtons
           prominentCTAs == SelectSeq(ctaButtons, IsProminentFlag)
       IN  IF ~isApplicablePageType(p.type) THEN createSkippedResult
           ELSE IF Len(ctaButtons) = 0 THEN createMissingCTAResult(p, t)
           ELSE IF Len(prominentCTAs) > 0 THEN createSuccessResult
           ELSE createWeakCTAResult(p, ctaButtons, t)

\* variant: the page passes only if every button is flagged prominent
analyze_allProminent(p, t) ==
  IF ~isApplicablePageType(p.type) THEN createSkippedResult
  ELSE IF ~Has(p, "metrics") THEN TypeError
  ELSE IF ~Has(p.metrics, "aboveFold") THEN TypeError
  ELSE IF ~Has(p.metrics.aboveFold, "ctaButtons") THEN TypeError
  ELSE LET ctaButtons    == p.metrics.aboveFold.ctaButtons
           prominentCTAs == SelectSeq(ctaButtons, IsProminentFlag)
       IN  IF Len(ctaButtons) = 0 THEN createMissingCTAResult(p, t)
           ELSE IF Len(prominentCTAs) = Len(ctaButtons) THEN createSuccessResult
           ELSE createWeakCTAResult(p, ctaButtons, t)

analyze(p, t) ==
  IF ~isApplicablePageType(p.type) THEN createSkippedResult
  \* page.metrics.aboveFold.ctaButtons, then ctaButtons.length
  ELSE IF ~Has(p, "metrics") THEN TypeError
  ELSE IF ~Has(p.metrics, "aboveFold") THEN TypeError
  ELSE IF ~Has(p.metrics.aboveFold, "ctaButtons") THEN TypeError
  ELSE LET ctaButtons    == p.metrics.aboveFold.ctaButtons
           prominentCTAs == SelectSeq(ctaButtons, IsProminentFlag)
       IN  IF Len(ctaButtons) = 0 THEN createMissingCTAResult(p, t)
           ELSE IF Len(prominentCTAs) > 0 THEN createSuccessResult
           ELSE createWeakCTAResult(p, ctaButtons, t)

---------------------------------------------------------------------------
(* The rule in use: a caller holds one page, calls analyze on it or the    *)
(* helper isProminentCTA on a button, any number of times while the clock  *)
(* advances, and keeps the value the last call returned.                   *)

NoCall == [op |-> "none"]

Init ==
  /\ page \in Page
  /\ ret = NoCall
  /\ now = 0
  /\ calls = <<>>
  /\ registry = <<>>
  /\ evals = <<>>
  /\ proc = NoProcess
  /\ site = [pages |-> <<>>, results |-> <<>>, score |-> null]

\* heroCTARule.analyze(page)
Analyze ==
  /\ ret' = [op |-> "analyze", result |-> analyze(page, now)]
  /\ UNCHANGED <<page, now, calls>>
  /\ UNCHANGED <<engineVars, proc>>

\* heroCTARule.isProminentCTA(cta)
IsProminentCTA ==
  \E cta \in CTAButtonSchema :
    /\ ret' = [op |-> "isProminentCTA", cta |-> cta, prominent |-> isProminentCTA(cta)]
    /\ UNCHANGED <<page, now, calls>>
    /\ UNCHANGED <<engineVars, proc>>

\* the millisecond clock advances
Tick ==
  /\ now < MaxClock
  /\ now' = now + 1
  /\ UNCHANGED <<page, ret, calls>>
  /\ UNCHANGED <<engineVars, proc>>

Next == Analyze \/ IsProminentCTA \/ Tick

Spec == Init /\ [][Next]_vars

---------------------------------------------------------------------------
(* Repeated evaluation: the caller keeps the results of successive analyze *)
(* calls side by side (calls), each with the page it was made on.  Between *)
(* calls the clock may advance and the caller may turn to the Page record  *)
(* of another crawl of the same URL: same type and metrics, another id.    *)

\* variant: analyze attaches the finding it produced to page.findings
AnalyzeAgain_attachFinding ==
  /\ Len(calls) < MaxCalls
  /\ LET result == analyze(page, now)
     IN  /\ ret' = [op |-> "analyze", result |-> result]
         /\ calls' = Append(calls, [page |-> page, result |-> result])
         /\ page' = IF Has(result, "finding") /\ result.finding # null
                    THEN [page EXCEPT !.findings = Append(@, result.finding)]
                    ELSE page
  /\ UNCHANGED now
  /\ UNCHANGED <<engineVars, proc>>

\* heroCTARule.analyze(page), its result kept beside the earlier ones
AnalyzeAgain ==
  /\ Len(calls) < MaxCalls
  /\ LET result == analyze(page, now)
     IN  /\ ret' = [op |-> "analyze", result |-> result]
         /\ calls' = Append(calls, [page |-> page, result |-> result])
  /\ UNCHANGED <<page, now>>
  /\ UNCHANGED <<engineVars, proc>>

\* the caller turns to the record of the same URL in another crawl
OtherPage ==
  /\ \E id \in PageIds \ {page.id} : page' = [page EXCEPT !.id = id]
  /\ UNCHANGED <<ret, now, calls>>
  /\ UNCHANGED <<engineVars, proc>>

NextCalls == AnalyzeAgain \/ OtherPage \/ Tick

SpecCalls == Init /\ [][NextCalls]_vars

---------------------------------------------------------------------------
(* Rule Registry (specification 4.2 and 7).  The repository declares the   *)
(* rule interface (BaseHeuristicRule) and the error type (HeuristicError)  *)
(* but holds no registry: evaluate is written here from the specification. *)
(* Beside HeroCTARule the registry holds rules that follow the same        *)
(* contract: skipped on the page types they do not apply to, and on the    *)
(* others one fixed outcome (pass, partial credit, fail, or an error).     *)

\* number of evaluate calls whose results are kept side by side
MaxEvals == 2

\* the rule object of HeroCTARule; its category is the one the project
\* documents give to the CTA check
HeroRule ==
  [ ruleId   |-> ruleId,
    maxScore |-> maxScore,
    category |-> "conversion",
    kind     |-> "hero",
    applies  |-> APPLICABLE_PAGE_TYPES ]

OtherRules(id, category, kinds) ==
  [ ruleId   : {id},
    maxScore : {10},
    category : {category},
    kind     : kinds,
    applies  : {PageTypeEnum, {"product"}} ]

\* rule.analyze(page) of a registered rule
runRule(rule, p, t) ==
  IF rule.kind = "hero" THEN analyze(p, t)
  ELSE IF p.type \notin rule.applies
    THEN [ passed |-> FALSE, score |-> 0, finding |-> null,
           skipped |-> TRUE, reason |-> "Rule does not apply to this page type" ]
  ELSE IF rule.kind = "pass"
    THEN [ passed |-> TRUE, score |-> rule.maxScore, finding |-> null ]
  ELSE IF rule.kind = "partial"
    THEN [ passed |-> FALSE, score |-> rule.maxScore \div 2,
           finding |-> createFinding(p, rule.ruleId, "med", [count |-> 1], t) ]
  ELSE IF rule.kind = "fail"
    THEN [ passed |-> FALSE, score |-> 0,
           finding |-> createFinding(p, rule.ruleId, "high", [count |-> 0], t) ]
  ELSE [threw |-> "HeuristicError"]

\* the finding recorded for a rule that raised an error: no severity, the
\* error in the evidence
degradedFinding(rule, p, err, t) ==
  [ id       |-> <<rule.ruleId, p.id, t>>,
    pageId   |-> p.id,
    ruleId   |-> rule.ruleId,
    evidence |-> [error |-> err] ]

\* what the registry keeps of one rule's turn
ruleOutcome(rule, p, t) ==
  LET out == runRule(rule, p, t)
  IN  IF Has(out, "threw")
      THEN [ passed  |-> FALSE, score |-> 0, errored |-> TRUE,
             finding |-> degradedFinding(rule, p, out.threw, t) ]
      ELSE out

NoOutcomes == [findings |-> <<>>, pageScore |-> 0, invoked |-> <<>>, results |-> <<>>]

\* variant: a finding is put in front of the earlier ones
collect_newestFirst(rule, p, t, acc) ==
  LET res == ruleOutcome(rule, p, t)
  IN  [ findings  |-> IF res.finding # null
                      THEN <<res.finding>> \o acc.findings
                      ELSE acc.findings,
        pageScore |-> acc.pageScore + res.score,
        invoked   |-> Append(acc.invoked, rule.ruleId),
        results   |-> Append(acc.results, [rule |-> rule, result |-> res]) ]

\* one rule's turn: its finding, if any, is appended and its score added
collect(rule, p, t, acc) ==
  LET res == ruleOutcome(rule, p, t)
  IN  [ findings  |-> IF res.finding # null
                      THEN Append(acc.findings, res.finding)
                      ELSE acc.findings,
        pageScore |-> acc.pageScore + res.score,
        invoked   |-> Append(acc.invoked, rule.ruleId),
        results   |-> Append(acc.results, [rule |-> rule, result |-> res]) ]

\* variant: the evaluation stops at the first rule that does not pass
RECURSIVE evaluateFrom_untilFailure(_, _, _, _, _)
evaluateFrom_untilFailure(rules, i, p, t, acc) ==
  IF i > Len(rules) THEN acc
  ELSE LET next == collect(rules[i], p, t, acc)
       IN  IF next.results[i].result.passed
           THEN evaluateFrom_untilFailure(rules, i + 1, p, t, next)
           ELSE next

\* variant: no isolation, an error of a rule ends the evaluation of the page
RECURSIVE evaluateFrom_abortOnError(_, _, _, _, _)
evaluateFrom_abortOnError(rules, i, p, t, acc) ==
  IF i > Len(rules) THEN acc
  ELSE IF Has(runRule(rules[i], p, t), "threw") THEN acc
  ELSE evaluateFrom_abortOnError(rules, i + 1, p, t, collect(rules[i], p, t, acc))

\* the rules from the i-th on, in registry order
RECURSIVE evaluateFrom(_, _, _, _, _)
evaluateFrom(rules, i, p, t, acc) ==
  IF i > Len(rules) THEN acc
  ELSE evaluateFrom(rules, i + 1, p, t, collect(rules[i], p, t, acc))

\* registry.evaluate(page): findings and pageScore, with the rules invoked
\* and their results
evaluate(rules, p, t) == evaluateFrom(rules, 1, p, t, NoOutcomes)

PermutationsOf(s) ==
  { [i \in 1..Len(s) |-> s[f[i]]] :
      f \in { g \in [1..Len(s) -> 1..Len(s)] :
                \A a, b \in 1..Len(s) : a # b => g[a] # g[b] } }

\* pages handed to the registry: one page id, the above-fold height of the
\* test suite, at most one button
RegistryPages ==
  { p \in Page :
      /\ p.id = "test-page-1"
      /\ p.type \in {"home", "collection"}
      /\ Has(p, "metrics") =>
           /\ Has(p.metrics, "aboveFold")
           /\ Has(p.metrics.aboveFold, "ctaButtons")
           /\ p.metrics.aboveFold.height = 800
           /\ Len(p.metrics.aboveFold.ctaButtons) <= 1
           /\ \A i \in 1..Len(p.metrics.aboveFold.ctaButtons) :
                p.metrics.aboveFold.ctaButtons[i].size
                  \in {[width |-> 80, height |-> 20], [width |-> 120, height |-> 35]} }

InitRegistry ==
  /\ page \in RegistryPages
  /\ ret = NoCall
  /\ now = 0
  /\ calls = <<>>
  /\ \E perf \in OtherRules("page_performance", "performance", {"pass", "fail", "throw"}),
        trust \in OtherRules("trust_signals", "trust", {"pass", "fail", "throw"}) :
       registry = <<HeroRule, perf, trust>>
  /\ evals = <<>>
  /\ proc = NoProcess
  /\ site = [pages |-> <<>>, results |-> <<>>, score |-> null]

\* registry.evaluate(page)
Evaluate ==
  /\ Len(evals) < MaxEvals
  /\ evals' = Append(evals, [ rules |-> registry, page |-> page, t |-> now,
                              out |-> evaluate(registry, page, now) ])
  /\ UNCHANGED <<page, ret, now, calls, registry, site, proc>>

\* the rules are registered in another order
Reorder ==
  /\ registry' \in PermutationsOf(registry) \ {registry}
  /\ UNCHANGED <<page, ret, now, calls, evals, site, proc>>

NextRegistry == Evaluate \/ Reorder

SpecRegistry == InitRegistry /\ [][NextRegistry]_vars

---------------------------------------------------------------------------
(* Site Aggregator (specification 4.3), written from the specification:    *)
(* the repository holds no aggregator.  A crawl is a sequence of pages     *)
(* whose metrics the crawler has populated (specification 6); each page is *)
(* evaluated by the registry, in any order, and the crawl is aggregated    *)
(* once every page has been evaluated.                                     *)

\* most pages in a crawl
MaxPages == 2

Categories == {"performance", "conversion", "trust", "mobile"}

\* two rubrics of category weights; the rubric is an input of the aggregator
Rubrics ==
  { [performance |-> 30, conversion |-> 40, trust |-> 20, mobile |-> 10],
    [performance |-> 1,  conversion |-> 2,  trust |-> 5,  mobile |-> 1] }

CrawlPageIds == <<"test-page-1", "test-page-2", "test-page-3", "test-page-4">>

\* the button lists of the test suite: none, a weak one, a prominent one
CrawlButtonLists ==
  { <<>> } \cup
  { <<b>> : b \in { c \in CTAButtonSchema :
                      \/ c.size = [width |-> 80, height |-> 20] /\ ~c.prominent
                      \/ c.size = [width |-> 120, height |-> 35] /\ c.prominent } }

CrawlPage(i, type, buttons) ==
  [ id       |-> CrawlPageIds[i],
    crawlId  |-> "test-crawl-1",
    type     |-> type,
    metrics  |-> [ aboveFold   |-> [ctaButtons |-> buttons, height |-> 800],
                   performance |-> [loadTime |-> 1000] ],
    findings |-> <<>> ]

Crawls ==
  UNION { { [i \in 1..n |-> CrawlPage(i, f[i][1], f[i][2])] :
              f \in [1..n -> {"home", "product", "collection"} \X CrawlButtonLists] } :
          n \in 1..MaxPages }

Pending == [pending |-> TRUE]

\* Math.round(num / den) for num >= 0, den > 0
round(num, den) == (2 * num + den) \div (2 * den)

\* the rule-page evaluations of a crawl, page after page
RECURSIVE evaluationsOf(_)
evaluationsOf(results) ==
  IF results = <<>> THEN <<>>
  ELSE results[1].results \o evaluationsOf(Tail(results))

\* variant: a skipped evaluation counts as zero points of the rule's maximum
counts_skippedToo(evaluation, category) ==
  /\ evaluation.rule.category = category
  /\ ~Has(evaluation.result, "errored")

\* an evaluation counts for a category if its rule is of the category and
\* the rule could be scored on the page: it was neither skipped nor in error
counts(evaluation, category) ==
  /\ evaluation.rule.category = category
  /\ ~Has(evaluation.result, "skipped")
  /\ ~Has(evaluation.result, "errored")

RECURSIVE earnedPoints(_, _)
earnedPoints(evaluations, category) ==
  IF evaluations = <<>> THEN 0
  ELSE (IF counts(evaluations[1], category) THEN evaluations[1].result.score ELSE 0)
       + earnedPoints(Tail(evaluations), category)

RECURSIVE maxPossiblePoints(_, _)
maxPossiblePoints(evaluations, category) ==
  IF evaluations = <<>> THEN 0
  ELSE (IF counts(evaluations[1], category) THEN evaluations[1].rule.maxScore ELSE 0)
       + maxPossiblePoints(Tail(evaluations), category)

categoryScore(evaluations, category) ==
  IF maxPossiblePoints(evaluations, category) = 0 THEN null
  ELSE [value |-> round(100 * earnedPoints(evaluations, category),
                        maxPossiblePoints(evaluations, category))]

RECURSIVE weightedSum(_, _, _)
weightedSum(categories, breakdown, rubric) ==
  IF categories = {} THEN [points |-> 0, weight |-> 0]
  ELSE LET c    == CHOOSE x \in categories : TRUE
           rest == weightedSum(categories \ {c}, breakdown, rubric)
       IN  IF breakdown[c] = null THEN rest
           ELSE [ points |-> rest.points + rubric[c] * breakdown[c].value,
                  weight |-> rest.weight + rubric[c] ]

\* variant: an undefined category takes part in the average with score 0
overallScore_undefinedAsZero(breakdown, rubric) ==
  LET all == weightedSum(Categories,
                         [c \in Categories |->
                            IF breakdown[c] = null THEN [value |-> 0] ELSE breakdown[c]],
                         rubric)
  IN  [value |-> round(all.points, all.weight)]

\* the weighted average of the defined categories, their weights renormalised
overallScore(breakdown, rubric) ==
  LET defined == weightedSum(Categories, breakdown, rubric)
  IN  IF defined.weight = 0 THEN null
      ELSE [value |-> round(defined.points, defined.weight)]

aggregate(results, rubric) ==
  LET breakdown == [c \in Categories |-> categoryScore(evaluationsOf(results), c)]
  IN  [overall |-> overallScore(breakdown, rubric), breakdown |-> breakdown]

AllEvaluated == \A i \in 1..Len(site.results) : site.results[i] # Pending

InitSite ==
  /\ page \in {CrawlPage(1, "home", <<>>)}
  /\ ret = NoCall
  /\ now = 0
  /\ calls = <<>>
  /\ \E perf \in OtherRules("page_performance", "performance", {"pass", "partial", "fail"}),
        trust \in OtherRules("trust_signals", "trust", {"pass", "fail"}) :
       registry = <<HeroRule, perf, trust>>
  /\ evals = <<>>
  /\ proc = NoProcess
  /\ \E crawl \in Crawls, rubric \in Rubrics :
       site = [ pages   |-> crawl,
                results |-> [i \in 1..Len(crawl) |-> Pending],
                rubric  |-> rubric,
                score   |-> null ]

\* the registry evaluates one page of the crawl that has not been evaluated
EvaluatePage ==
  \E i \in 1..Len(site.pages) :
    /\ site.results[i] = Pending
    /\ site' = [site EXCEPT !.results[i] = evaluate(registry, site.pages[i], now)]
    /\ UNCHANGED <<page, ret, now, calls, registry, evals, proc>>

\* the crawl is aggregated into its SiteScore
Aggregate ==
  /\ AllEvaluated
  /\ site.score = null
  /\ site' = [site EXCEPT !.score = aggregate(site.results, site.rubric)]
  /\ UNCHANGED <<page, ret, now, calls, registry, evals, proc>>

NextSite == EvaluatePage \/ Aggregate

SpecSite == InitSite /\ [][NextSite]_vars

---------------------------------------------------------------------------
(* Concurrent evaluation of the pages of one crawl (spec section 5).  Each *)
(* page evaluation is started and completes on its own; the completed      *)
(* evaluations are collected in their order of completion; aggregation is  *)
(* the join of all of them.                                                *)

\* the pages of the crawls whose evaluations run concurrently
ConcurrentCrawls ==
  { crawl \in Crawls : \A i \in 1..Len(crawl) : crawl[i].type \in {"home", "collection"} }

InitCrawl ==
  /\ page \in {CrawlPage(1, "home", <<>>)}
  /\ ret = NoCall
  /\ now = 0
  /\ calls = <<>>
  /\ \E perf \in OtherRules("page_performance", "performance", {"partial"}),
        trust \in OtherRules("trust_signals", "trust", {"fail"}) :
       registry = <<HeroRule, perf, trust>>
  /\ evals = <<>>
  /\ proc = NoProcess
  /\ \E crawl \in ConcurrentCrawls, rubric \in Rubrics :
       site = [ pages     |-> crawl,
                status    |-> [i \in 1..Len(crawl) |-> "pending"],
                completed |-> <<>>,
                results   |-> <<>>,
                rubric    |-> rubric,
                score     |-> null ]

\* the evaluation of a page of the crawl is started
StartPage ==
  \E i \in 1..Len(site.pages) :
    /\ site.status[i] = "pending"
    /\ site' = [site EXCEPT !.status[i] = "running"]
    /\ UNCHANGED <<page, ret, now, calls, registry, evals, proc>>

\* a running evaluation completes: evaluate(page) returns and its result
\* joins the results collected so far
FinishPage ==
  \E i \in 1..Len(site.pages) :
    /\ site.status[i] = "running"
    /\ site' = [site EXCEPT !.status[i] = "done",
                            !.completed = Append(@, i),
                            !.results = Append(@, evaluate(registry, site.pages[i], now))]
    /\ UNCHANGED <<page, ret, now, calls, registry, evals, proc>>

AllCompleted == \A i \in 1..Len(site.pages) : site.status[i] = "done"

\* variant: streaming aggregation, over the evaluations completed so far
AggregateCrawl_streaming ==
  /\ Len(site.results) > 0
  /\ site.score = null
  /\ site' = [site EXCEPT !.score = aggregate(site.results, site.rubric)]
  /\ UNCHANGED <<page, ret, now, calls, registry, evals, proc>>

\* the join: the crawl is aggregated once every page evaluation completed
AggregateCrawl ==
  /\ AllCompleted
  /\ site.score = null
  /\ site' = [site EXCEPT !.score = aggregate(site.results, site.rubric)]
  /\ UNCHANGED <<page, ret, now, calls, registry, evals, proc>>

NextCrawl == StartPage \/ FinishPage \/ Tick \/ AggregateCrawl

SpecCrawl == InitCrawl /\ [][NextCrawl]_vars

---------------------------------------------------------------------------
(* The rule on a page whose CTA list changes between calls: the crawler    *)
(* finds one more button above the fold, or reports the buttons in another *)
(* order.  The caller keeps the results side by side (calls).              *)

InitButtons ==
  /\ \E type \in {"home", "product"}, buttons \in SeqsUpTo(CTAButtonSchema, MaxButtons) :
       page = CrawlPage(1, type, buttons)
  /\ ret = NoCall
  /\ now = 0
  /\ calls = <<>>
  /\ registry = <<>>
  /\ evals = <<>>
  /\ proc = NoProcess
  /\ site = [pages |-> <<>>, results |-> <<>>, score |-> null]

\* one more button is found above the fold
AppendButton ==
  /\ Len(page.metrics.aboveFold.ctaButtons) < MaxButtons
  /\ \E cta \in CTAButtonSchema :
       page' = [page EXCEPT !.metrics.aboveFold.ctaButtons = Append(@, cta)]
  /\ UNCHANGED <<ret, now, calls>>
  /\ UNCHANGED <<engineVars, proc>>

\* the same buttons are reported in another order
ReorderButtons ==
  /\ \E buttons \in PermutationsOf(page.metrics.aboveFold.ctaButtons) :
       /\ buttons # page.metrics.aboveFold.ctaButtons
       /\ page' = [page EXCEPT !.metrics.aboveFold.ctaButtons = buttons]
  /\ UNCHANGED <<ret, now, calls>>
  /\ UNCHANGED <<engineVars, proc>>

NextButtons == AnalyzeAgain \/ AppendButton \/ ReorderButtons

SpecButtons == InitButtons /\ [][NextButtons]_vars

---------------------------------------------------------------------------
(* Test tooling.  Each script is a process (proc) that runs external       *)
(* commands one after the other; whether a command succeeds is decided by  *)
(* the environment at the moment it is run.  proc.log keeps the commands   *)
(* that were run, in order, each with its outcome; proc.exit is the exit   *)
(* code once the process has ended.  The rule under test is not involved.  *)

\* the rule and the engine while a script runs
NoRuleInUse ==
  /\ page = CrawlPage(1, "home", <<>>)
  /\ ret = NoCall
  /\ now = 0
  /\ calls = <<>>
  /\ registry = <<>>
  /\ evals = <<>>
  /\ site = [pages |-> <<>>, results |-> <<>>, score |-> null]

undefined == [undefined |-> TRUE]

\* execSync(command) returned (ok) or threw (the command exited non-zero)
execSync(p, command, ok) ==
  [p EXCEPT !.log = Append(@, [command |-> command, ok |-> ok])]

\* process.exit(code)
exit(p, code) == [p EXCEPT !.pc = "exited", !.exit = [code |-> code]]

Exited == proc.pc = "exited"

\* the commands the process has run so far, in order
CommandsRun == [i \in 1..Len(proc.log) |-> proc.log[i].command]

\* the command was run and it succeeded / failed
Succeeded(command) ==
  \E i \in 1..Len(proc.log) : proc.log[i].command = command /\ proc.log[i].ok

Failed(command) ==
  \E i \in 1..Len(proc.log) : proc.log[i].command = command /\ ~proc.log[i].ok

WasRun(command) == Succeeded(command) \/ Failed(command)

---------------------------------------------------------------------------
(* scripts/tdd-workflow.js: TDDWorkflowGuardian *)

TDD_PHASES == [RED |-> "RED", GREEN |-> "GREEN", REFACTOR |-> "REFACTOR"]

\* process.argv[2]: absent, one of the documented phases in some spelling,
\* or something else
PhaseArguments ==
  {undefined} \cup
  { [value |-> a] : a \in {"red", "RED", "Red", "green", "refactor", "check",
                           "Check", "deploy", ""} }

\* String.prototype.toUpperCase on the arguments above
toUpperCase(str) ==
  CASE str \in {"red", "RED", "Red"} -> "RED"
    [] str = "green"                 -> "GREEN"
    [] str = "refactor"              -> "REFACTOR"
    [] str \in {"check", "Check"}    -> "CHECK"
    [] str = "deploy"                -> "DEPLOY"
    [] str = ""                      -> ""

\* phase?.toUpperCase()
requestedPhase(phase) ==
  IF phase = undefined THEN undefined ELSE [value |-> toUpperCase(phase.value)]

InitGuardian ==
  /\ NoRuleInUse
  /\ \E phase \in PhaseArguments :
       proc = [ script        |-> "tdd-workflow",
                pc            |-> "constructor",
                phase         |-> phase,
                currentPhase  |-> undefined,
                typeCheck     |-> undefined,
                coverageCheck |-> undefined,
                usage         |-> FALSE,
                log           |-> <<>>,
                exit          |-> null ]

\* new TDDWorkflowGuardian(): the constructor runs the tests once
detectCurrentPhase ==
  /\ proc.pc = "constructor"
  /\ \E ok \in BOOLEAN :
       proc' = [ execSync(proc, "npm run test -- --passWithNoTests=false --silent", ok)
                   EXCEPT !.currentPhase = [value |-> IF ok THEN TDD_PHASES.GREEN
                                                      ELSE TDD_PHASES.RED],
                          !.pc = "run" ]
  /\ UNCHANGED <<ruleVars, engineVars>>

\* guardian.run(phase): the switch on the upper-cased phase
TDDWorkflowGuardian_run ==
  /\ proc.pc = "run"
  /\ LET phase == requestedPhase(proc.phase)
     IN  proc' =
           IF phase = [value |-> TDD_PHASES.RED]
             THEN [proc EXCEPT !.pc = "enforceRedPhase"]
           ELSE IF phase = [value |-> TDD_PHASES.GREEN]
             THEN [proc EXCEPT !.pc = "enforceGreenPhase"]
           ELSE IF phase = [value |-> TDD_PHASES.REFACTOR]
             THEN [proc EXCEPT !.pc = "enforceRefactorPhase"]
           ELSE IF phase = [value |-> "CHECK"]
             THEN [proc EXCEPT !.pc = "checkTypeCompliance"]
           ELSE exit([proc EXCEPT !.usage = TRUE], 1)
  /\ UNCHANGED <<ruleVars, engineVars>>

\* the tests are run to confirm that they fail; run('red') ends after it
enforceRedPhase ==
  /\ proc.pc = "enforceRedPhase"
  /\ \E ok \in BOOLEAN :
       proc' = IF ok THEN exit(execSync(proc, "npm run test", ok), 1)
               ELSE exit(execSync(proc, "npm run test", ok), 0)
  /\ UNCHANGED <<ruleVars, engineVars>>

\* the tests are run with coverage to confirm that they pass
enforceGreenPhase ==
  /\ proc.pc = "enforceGreenPhase"
  /\ \E ok \in BOOLEAN :
       proc' = IF ok
               THEN [execSync(proc, "npm run test:coverage", ok)
                       EXCEPT !.pc = "checkTypeCompliance"]
               ELSE exit(execSync(proc, "npm run test:coverage", ok), 1)
  /\ UNCHANGED <<ruleVars, engineVars>>

\* runTestsAndGetResults returns the parsed report, or null when the tests
\* fail; enforceRefactorPhase stores it in a local that is never read
enforceRefactorPhase ==
  /\ proc.pc = "enforceRefactorPhase"
  /\ \E ok \in BOOLEAN :
       proc' = [execSync(proc, "npm run test:coverage -- --silent --json", ok)
                  EXCEPT !.pc = "checkTypeCompliance"]
  /\ UNCHANGED <<ruleVars, engineVars>>

\* enforceQualityGates, first check
checkTypeCompliance ==
  /\ proc.pc = "checkTypeCompliance"
  /\ \E ok \in BOOLEAN :
       proc' = [execSync(proc, "npm run type-check", ok)
                  EXCEPT !.typeCheck = [value |-> ok],
                         !.pc = "checkCoverageCompliance"]
  /\ UNCHANGED <<ruleVars, engineVars>>

\* enforceQualityGates, second check
checkCoverageCompliance ==
  /\ proc.pc = "checkCoverageCompliance"
  /\ \E ok \in BOOLEAN :
       proc' = [execSync(proc, "node scripts/check-coverage.js", ok)
                  EXCEPT !.coverageCheck = [value |-> ok],
                         !.pc = "enforceQualityGates"]
  /\ UNCHANGED <<ruleVars, engineVars>>

\* variant: the gates fail only if both checks failed
qualityGatesFailed_both(typeCheck, coverageCheck) == ~typeCheck /\ ~coverageCheck

\* if (!typeCheck || !coverageCheck)
qualityGatesFailed(typeCheck, coverageCheck) == ~typeCheck \/ ~coverageCheck

\* enforceQualityGates, the verdict; run ends after it
enforceQualityGates ==
  /\ proc.pc = "enforceQualityGates"
  /\ proc' = IF qualityGatesFailed(proc.typeCheck.value, proc.coverageCheck.value)
             THEN exit(proc, 1)
             ELSE exit(proc, 0)
  /\ UNCHANGED <<ruleVars, engineVars>>

NextGuardian ==
  \/ detectCurrentPhase
  \/ TDDWorkflowGuardian_run
  \/ enforceRedPhase
  \/ enforceGreenPhase
  \/ enforceRefactorPhase
  \/ checkTypeCompliance
  \/ checkCoverageCompliance
  \/ enforceQualityGates

SpecGuardian == InitGuardian /\ [][NextGuardian]_vars

---------------------------------------------------------------------------
(* scripts/tdd-workflow.js, second script: PreCommitGuardian *)

\* files that may be staged: an implementation file, a test file, a script
\* and a document
StagedFiles ==
  { "src/lib/heuristics/hero-cta.ts",
    "src/lib/heuristics/hero-cta.test.ts",
    "scripts/check-coverage.js",
    "README.md" }

\* file.endsWith('.ts') || file.endsWith('.tsx')
endsWithTs(file) ==
  file \in {"src/lib/heuristics/hero-cta.ts", "src/lib/heuristics/hero-cta.test.ts"}

\* ... || file.endsWith('.js') || file.endsWith('.jsx')
isCodeFile(file) == endsWithTs(file) \/ file = "scripts/check-coverage.js"

\* file.includes('test') || file.includes('spec')
isTestFile(file) == file = "src/lib/heuristics/hero-cta.test.ts"

\* checkStagedFiles: the staged code files; none when git fails
checkStagedFiles(p) ==
  IF p.gitOk THEN {file \in p.staged : isCodeFile(file)} ELSE {}

\* the warnings checkTDDCompliance pushes, in order
complianceWarnings(p) ==
  LET stagedFiles         == checkStagedFiles(p)
      implementationFiles == {file \in stagedFiles : ~isTestFile(file) /\ endsWithTs(file)}
      testFiles           == {file \in stagedFiles : isTestFile(file)}
  IN  (IF implementationFiles # {} /\ testFiles = {}
       THEN <<[check |-> "TDD Compliance"]>> ELSE <<>>)
      \o
      \* a test file that can be read and names no TDD phase
      (IF testFiles # {} /\ p.readable /\ ~p.hasTDDStructure
       THEN <<[check |-> "TDD Structure"]>> ELSE <<>>)

\* runCommand(command, description): a failure is pushed on this.errors and
\* is not thrown
runCommand(p, command, description, ok) ==
  IF ok THEN execSync(p, command, ok)
  ELSE [execSync(p, command, ok)
          EXCEPT !.errors = Append(@, [check |-> description, command |-> command])]

InitPreCommit ==
  /\ NoRuleInUse
  /\ \E staged \in SUBSET StagedFiles, gitOk, readable, hasTDDStructure \in BOOLEAN :
       proc = [ script          |-> "pre-commit",
                pc              |-> "checkTDDCompliance",
                staged          |-> staged,
                gitOk           |-> gitOk,
                readable        |-> readable,
                hasTDDStructure |-> hasTDDStructure,
                checks          |-> <<>>,
                errors          |-> <<>>,
                warnings        |-> <<>>,
                log             |-> <<>>,
                exit            |-> null ]

\* one check of run has been made, the next one is due
checked(p, check, next) == [p EXCEPT !.checks = Append(@, check), !.pc = next]

checkTDDCompliance ==
  /\ proc.pc = "checkTDDCompliance"
  /\ proc' = checked([ execSync(proc, "git diff --cached --name-only", proc.gitOk)
                         EXCEPT !.warnings = @ \o complianceWarnings(proc) ],
                     "checkTDDCompliance", "checkTypeScript")
  /\ UNCHANGED <<ruleVars, engineVars>>

checkTypeScript ==
  /\ proc.pc = "checkTypeScript"
  /\ \E ok \in BOOLEAN :
       proc' = checked(runCommand(proc, "npx tsc --noEmit", "TypeScript type checking", ok),
                       "checkTypeScript", "checkLinting")
  /\ UNCHANGED <<ruleVars, engineVars>>

checkLinting ==
  /\ proc.pc = "checkLinting"
  /\ \E ok \in BOOLEAN :
       proc' = checked(runCommand(proc, "npm run lint", "ESLint code quality check", ok),
                       "checkLinting", "checkTests")
  /\ UNCHANGED <<ruleVars, engineVars>>

checkTests ==
  /\ proc.pc = "checkTests"
  /\ \E ok \in BOOLEAN :
       proc' = checked(runCommand(proc,
                         "npm run test:coverage -- --ci --coverage --watchAll=false --passWithNoTests=false",
                         "Test execution and coverage", ok),
                       "checkTests", "checkCoverage")
  /\ UNCHANGED <<ruleVars, engineVars>>

PreCommitGuardian_checkCoverage ==
  /\ proc.pc = "checkCoverage"
  /\ \E ok \in BOOLEAN :
       proc' = checked(runCommand(proc, "node scripts/check-coverage.js",
                         "Coverage threshold validation (90%)", ok),
                       "checkCoverage", "generateReport")
  /\ UNCHANGED <<ruleVars, engineVars>>

\* variant: warnings are reported as a failure too
generateReport_warningsBlock(errors, warnings) ==
  Len(errors) = 0 /\ Len(warnings) = 0

\* generateReport: passed, unless there is an error
generateReport(errors, warnings) ==
  IF Len(errors) = 0 /\ Len(warnings) = 0 THEN TRUE
  ELSE IF Len(errors) > 0 THEN FALSE
  ELSE TRUE

\* the end of run: the report, then process.exit(1) or process.exit(0)
PreCommitGuardian_run ==
  /\ proc.pc = "generateReport"
  /\ proc' = IF ~generateReport(proc.errors, proc.warnings) THEN exit(proc, 1)
             ELSE exit(proc, 0)
  /\ UNCHANGED <<ruleVars, engineVars>>

NextPreCommit ==
  \/ checkTDDCompliance
  \/ checkTypeScript
  \/ checkLinting
  \/ checkTests
  \/ PreCommitGuardian_checkCoverage
  \/ PreCommitGuardian_run

SpecPreCommit == InitPreCommit /\ [][NextPreCommit]_vars

---------------------------------------------------------------------------
(* scripts/check-coverage.js: checkCoverage.  The input is the file        *)
(* coverage/coverage-summary.json: the entry 'total' and one entry per     *)
(* source file, each with a percentage (pct) for each of the four metrics. *)

COVERAGE_THRESHOLD == 90

CORE_COMPONENTS_THRESHOLD == 95

metrics == <<"statements", "branches", "functions", "lines">>

Metrics == {metrics[k] : k \in 1..Len(metrics)}

coreComponents == <<"src/lib/crawler", "src/lib/heuristics", "src/lib/llm">>

\* the files a summary may report on: two of one core component, one of
\* another, one outside the core; no file of src/lib/llm
SummaryFiles ==
  { "src/lib/crawler/crawler.ts",
    "src/lib/crawler/robots.ts",
    "src/lib/heuristics/hero-cta.ts",
    "src/app/page.tsx" }

\* file.startsWith(component)
startsWith(file, component) ==
  \/ component = "src/lib/crawler"
       /\ file \in {"src/lib/crawler/crawler.ts", "src/lib/crawler/robots.ts"}
  \/ component = "src/lib/heuristics" /\ file = "src/lib/heuristics/hero-cta.ts"

\* percentages on both sides of the thresholds
Percentages == {79, 80, 89, 90, 94, 95, 100}

\* the coverage of a file or of the whole: full, but for at most one metric
Coverages ==
  { [m \in Metrics |-> IF m = low THEN pct ELSE 100] :
      low \in Metrics, pct \in Percentages }

\* the summaries: the total of a metric lies between the lowest and the
\* highest percentage of the files
CoverageSummaries ==
  { summary \in
      UNION { [total : Coverages, files : [files -> Coverages]] :
              files \in {F \in SUBSET SummaryFiles : Cardinality(F) <= MaxFiles} } :
      \A m \in Metrics :
        DOMAIN summary.files # {} =>
          /\ \E f \in DOMAIN summary.files : summary.files[f][m] <= summary.total[m]
          /\ \E f \in DOMAIN summary.files : summary.total[m] <= summary.files[f][m] }

\* the sum of the percentages of a metric over a set of files
RECURSIVE sumOfPct(_, _, _)
sumOfPct(summary, files, metric) ==
  IF files = {} THEN 0
  ELSE LET f == CHOOSE x \in files : TRUE
       IN  summary.files[f][metric] + sumOfPct(summary, files \ {f}, metric)

\* Math.round(avgCoverage[metric] * 100), the average in hundredths
roundedAverage(summary, files, metric) ==
  (200 * sumOfPct(summary, files, metric) + Cardinality(files))
    \div (2 * Cardinality(files))

globalPassed(summary) ==
  \A m \in Metrics : summary.total[m] >= COVERAGE_THRESHOLD

\* a component without files is reported and passes
componentPassed(summary, component) ==
  LET componentCoverage == {f \in DOMAIN summary.files : startsWith(f, component)}
  IN  componentCoverage # {} =>
        \A m \in Metrics :
          roundedAverage(summary, componentCoverage, m) >= 100 * CORE_COMPONENTS_THRESHOLD

\* the files that are listed as below the threshold; the list is printed
uncoveredFiles(summary) ==
  { f \in DOMAIN summary.files :
      \E m \in Metrics : summary.files[f][m] < COVERAGE_THRESHOLD }

allPassed(summary) ==
  /\ globalPassed(summary)
  /\ \A k \in 1..Len(coreComponents) : componentPassed(summary, coreComponents[k])

InitCoverage ==
  /\ NoRuleInUse
  /\ \E exists \in BOOLEAN, summary \in CoverageSummaries :
       proc = [ script  |-> "check-coverage",
                pc      |-> "checkCoverage",
                exists  |-> exists,
                summary |-> summary,
                listed  |-> {},
                exit    |-> null ]

checkCoverage ==
  /\ proc.pc = "checkCoverage"
  /\ proc' = IF ~proc.exists THEN exit(proc, 1)
             ELSE exit([proc EXCEPT !.listed = uncoveredFiles(proc.summary)],
                       IF allPassed(proc.summary) THEN 0 ELSE 1)
  /\ UNCHANGED <<ruleVars, engineVars>>

NextCoverage == checkCoverage

SpecCoverage == InitCoverage /\ [][NextCoverage]_vars

---------------------------------------------------------------------------
(* TDD helper utilities: TDDTestRunner.runPhase.  The callbacks of the     *)
(* test case are the environment: each either returns or throws, and what  *)
(* assert does may depend on the result it is given.  A callback that is   *)
(* not given is undefined.  proc.called lists the callbacks in the order   *)
(* they were called; proc.pending is the completion of the try statement   *)
(* (a return value or an error) that the finally block lets through or     *)
(* replaces; proc.settled is what the caller of runPhase receives.         *)

TestPhase == {"RED", "GREEN", "REFACTOR"}

\* what execute may return
ExecuteResults == {"expected result", "other result"}

TDDTestCase ==
  [ phase   : TestPhase,
    setup   : {undefined, [throws |-> FALSE], [throws |-> TRUE]},
    execute : {[throws |-> TRUE]} \cup {[throws |-> FALSE, result |-> r] : r \in ExecuteResults},
    \* assert throws on the results it does not accept
    assert  : [accepts : SUBSET ExecuteResults],
    cleanup : {undefined, [throws |-> FALSE], [throws |-> TRUE]} ]

\* TDDTestRunner.red / green / refactor: new TDDTestRunner().runPhase(...)
InitRunPhase ==
  /\ NoRuleInUse
  /\ \E testCase \in TDDTestCase :
       proc = [ script       |-> "tdd-helpers",
                pc           |-> "setup",
                testCase     |-> testCase,
                currentPhase |-> "RED",
                called       |-> <<>>,
                result       |-> undefined,
                pending      |-> undefined,
                console      |-> <<>>,
                settled      |-> undefined ]

\* the callback is called
call(p, callback) == [p EXCEPT !.called = Append(@, callback)]

\* the try block is left by a throw
thrown(p, error) == [p EXCEPT !.pending = [threw |-> error], !.pc = "catch"]

\* this.currentPhase = testCase.phase; if (testCase.setup) await testCase.setup()
runPhase_setup ==
  /\ proc.pc = "setup"
  /\ LET p == [proc EXCEPT !.currentPhase = proc.testCase.phase]
     IN  proc' =
           IF proc.testCase.setup = undefined THEN [p EXCEPT !.pc = "execute"]
           ELSE IF proc.testCase.setup.throws THEN thrown(call(p, "setup"), "setup error")
           ELSE [call(p, "setup") EXCEPT !.pc = "execute"]
  /\ UNCHANGED <<ruleVars, engineVars>>

\* const result = await testCase.execute()
runPhase_execute ==
  /\ proc.pc = "execute"
  /\ proc' =
       IF proc.testCase.execute.throws THEN thrown(call(proc, "execute"), "execute error")
       ELSE [call(proc, "execute") EXCEPT !.result = [value |-> proc.testCase.execute.result],
                                          !.pc = "assert"]
  /\ UNCHANGED <<ruleVars, engineVars>>

\* await testCase.assert(result); return result
runPhase_assert ==
  /\ proc.pc = "assert"
  /\ proc' =
       IF proc.result.value \notin proc.testCase.assert.accepts
       THEN thrown(call(proc, "assert"), "assert error")
       ELSE [call(proc, "assert") EXCEPT !.console = Append(@, "completed successfully"),
                                         !.pending = [returned |-> proc.result.value],
                                         !.pc = "finally"]
  /\ UNCHANGED <<ruleVars, engineVars>>

\* variant: the failure that the RED phase expects is not thrown again
runPhase_catch_swallowInRed ==
  /\ proc.pc = "catch"
  /\ proc' =
       IF proc.testCase.phase = "RED"
       THEN [proc EXCEPT !.console = Append(@, "Expected failure in RED phase"),
                         !.pending = [returned |-> "undefined"],
                         !.pc = "finally"]
       ELSE [proc EXCEPT !.console = Append(@, "Unexpected failure"),
                         !.pc = "finally"]
  /\ UNCHANGED <<ruleVars, engineVars>>

\* catch (error): a message that depends on the phase, then throw error
runPhase_catch ==
  /\ proc.pc = "catch"
  /\ proc' =
       IF proc.testCase.phase = "RED"
       THEN [proc EXCEPT !.console = Append(@, "Expected failure in RED phase"),
                         !.pc = "finally"]
       ELSE [proc EXCEPT !.console = Append(@, "Unexpected failure"),
                         !.pc = "finally"]
  /\ UNCHANGED <<ruleVars, engineVars>>

\* finally: if (testCase.cleanup) await testCase.cleanup(); an error thrown
\* in the finally block replaces the completion of the try statement
runPhase_finally ==
  /\ proc.pc = "finally"
  /\ proc' =
       IF proc.testCase.cleanup = undefined
       THEN [proc EXCEPT !.settled = proc.pending, !.pc = "settled"]
       ELSE IF proc.testCase.cleanup.throws
       THEN [call(proc, "cleanup") EXCEPT !.settled = [threw |-> "cleanup error"],
                                          !.pc = "settled"]
       ELSE [call(proc, "cleanup") EXCEPT !.settled = proc.pending, !.pc = "settled"]
  /\ UNCHANGED <<ruleVars, engineVars>>

NextRunPhase ==
  \/ runPhase_setup
  \/ runPhase_execute
  \/ runPhase_assert
  \/ runPhase_catch
  \/ runPhase_finally

SpecRunPhase == InitRunPhase /\ [][NextRunPhase]_vars

---------------------------------------------------------------------------
(* scripts/test-runner.sh.  The script runs under set -e: a command that   *)
(* fails outside the condition of an if, and outside a || list, ends the   *)
(* script with the command's status.  A failing command has status 1.      *)
(* proc.warnings and proc.errors keep what print_warning and print_error   *)
(* printed, proc.success whether the final success message was printed.    *)

Options ==
  { "--unit-only", "--integration-only", "--e2e-only", "--no-coverage",
    "--watch", "--ci", "--help", "--verbose" }

\* variant: an --x-only option also switches its own stage on
parseOption_enablesOwnStage(p, option) ==
  CASE option = "--unit-only" ->
         [p EXCEPT !.RUN_UNIT = TRUE, !.RUN_INTEGRATION = FALSE, !.RUN_E2E = FALSE]
    [] option = "--integration-only" ->
         [p EXCEPT !.RUN_INTEGRATION = TRUE, !.RUN_UNIT = FALSE, !.RUN_E2E = FALSE]
    [] option = "--e2e-only" ->
         [p EXCEPT !.RUN_E2E = TRUE, !.RUN_UNIT = FALSE, !.RUN_INTEGRATION = FALSE,
                   !.RUN_COVERAGE = FALSE]
    [] option = "--no-coverage" -> [p EXCEPT !.RUN_COVERAGE = FALSE]
    [] option = "--watch"       -> [p EXCEPT !.WATCH_MODE = TRUE, !.RUN_E2E = FALSE]
    [] option = "--ci"          -> [p EXCEPT !.CI_MODE = TRUE]
    [] option = "--help"        -> exit(p, 0)
    [] OTHER -> exit([p EXCEPT !.errors = Append(@, "Unknown option")], 1)

\* one turn of the case statement of the argument loop
parseOption(p, option) ==
  CASE option = "--unit-only" ->
         [p EXCEPT !.RUN_INTEGRATION = FALSE, !.RUN_E2E = FALSE]
    [] option = "--integration-only" ->
         [p EXCEPT !.RUN_UNIT = FALSE, !.RUN_E2E = FALSE]
    [] option = "--e2e-only" ->
         [p EXCEPT !.RUN_UNIT = FALSE, !.RUN_INTEGRATION = FALSE, !.RUN_COVERAGE = FALSE]
    [] option = "--no-coverage" -> [p EXCEPT !.RUN_COVERAGE = FALSE]
    [] option = "--watch"       -> [p EXCEPT !.WATCH_MODE = TRUE, !.RUN_E2E = FALSE]
    [] option = "--ci"          -> [p EXCEPT !.CI_MODE = TRUE]
    [] option = "--help"        -> exit(p, 0)
    [] OTHER -> exit([p EXCEPT !.errors = Append(@, "Unknown option")], 1)

InitTestRunner ==
  /\ NoRuleInUse
  /\ \E arguments \in SeqsUpTo(Options, MaxArgs) :
       proc = [ script          |-> "test-runner",
                pc              |-> "parse",
                arguments       |-> arguments,
                parsed          |-> 0,
                RUN_UNIT        |-> TRUE,
                RUN_INTEGRATION |-> TRUE,
                RUN_E2E         |-> TRUE,
                RUN_COVERAGE    |-> TRUE,
                WATCH_MODE      |-> FALSE,
                CI_MODE         |-> FALSE,
                log             |-> <<>>,
                warnings        |-> <<>>,
                errors          |-> <<>>,
                success         |-> FALSE,
                exit            |-> null ]

\* while [[ $# -gt 0 ]]; do case $1 in ... esac; done
parseArguments ==
  /\ proc.pc = "parse"
  /\ proc' =
       IF proc.parsed = Len(proc.arguments) THEN [proc EXCEPT !.pc = "dbSetup"]
       ELSE parseOption([proc EXCEPT !.parsed = @ + 1], proc.arguments[proc.parsed + 1])
  /\ UNCHANGED <<ruleVars, engineVars>>

\* variant: the error is printed and the script goes on
runOrExit_goesOn(p, command, message, next) ==
  { [execSync(p, command, TRUE) EXCEPT !.pc = next],
    [execSync(p, command, FALSE) EXCEPT !.errors = Append(@, message), !.pc = next] }

\* if ! command; then print_error message; exit 1; fi -- the two ways on
runOrExit(p, command, message, next) ==
  { [execSync(p, command, TRUE) EXCEPT !.pc = next],
    exit([execSync(p, command, FALSE) EXCEPT !.errors = Append(@, message)], 1) }

\* if ! command; then print_warning message; fi
runOrWarn(p, command, message, next) ==
  { [execSync(p, command, TRUE) EXCEPT !.pc = next],
    [execSync(p, command, FALSE) EXCEPT !.warnings = Append(@, message), !.pc = next] }

\* a command in watch mode, followed by exit 0; set -e ends the script
\* with status 1 if the command fails
runWatchAndExit(p, command) ==
  { exit(execSync(p, command, TRUE), 0), exit(execSync(p, command, FALSE), 1) }

dbSetup ==
  /\ proc.pc = "dbSetup"
  /\ proc' \in
       IF proc.RUN_INTEGRATION \/ proc.RUN_E2E
       THEN runOrExit(proc, "npm run test:db:setup", "Failed to setup test database", "lint")
       ELSE {[proc EXCEPT !.pc = "lint"]}
  /\ UNCHANGED <<ruleVars, engineVars>>

lint ==
  /\ proc.pc = "lint"
  /\ proc' \in
       IF proc.CI_MODE
       THEN runOrExit(proc, "npm run lint", "Linting failed", "typeCheck")
       ELSE {[proc EXCEPT !.pc = "unit"]}
  /\ UNCHANGED <<ruleVars, engineVars>>

typeCheck ==
  /\ proc.pc = "typeCheck"
  /\ proc' \in runOrExit(proc, "npm run type-check", "Type checking failed", "unit")
  /\ UNCHANGED <<ruleVars, engineVars>>

unitTests ==
  /\ proc.pc = "unit"
  /\ proc' \in
       IF ~proc.RUN_UNIT THEN {[proc EXCEPT !.pc = "integration"]}
       ELSE IF proc.WATCH_MODE THEN runWatchAndExit(proc, "npm run test:unit -- --watch")
       ELSE runOrExit(proc, "npm run test:unit", "Unit tests failed", "integration")
  /\ UNCHANGED <<ruleVars, engineVars>>

integrationTests ==
  /\ proc.pc = "integration"
  /\ proc' \in
       IF ~proc.RUN_INTEGRATION THEN {[proc EXCEPT !.pc = "coverage"]}
       ELSE IF proc.WATCH_MODE
         THEN runWatchAndExit(proc, "npm run test:integration -- --watch")
       ELSE runOrExit(proc, "npm run test:integration", "Integration tests failed",
                      "coverage")
  /\ UNCHANGED <<ruleVars, engineVars>>

\* the coverage run; after a successful run the summary, if the file is
\* there, is printed by node -e, which exits with 1 when the line coverage
\* is below 90: set -e then ends the script
coverageReport ==
  /\ proc.pc = "coverage"
  /\ proc' \in
       IF ~(proc.RUN_COVERAGE /\ ~proc.WATCH_MODE) THEN {[proc EXCEPT !.pc = "e2eInstall"]}
       ELSE LET ran == execSync(proc, "npm run test:coverage", TRUE)
            IN  { [execSync(proc, "npm run test:coverage", FALSE)
                     EXCEPT !.warnings = Append(@, "Coverage report generation failed"),
                            !.pc = "e2eInstall"],
                  \* no coverage/coverage-summary.json
                  [ran EXCEPT !.pc = "e2eInstall"],
                  [execSync(ran, "node -e (coverage summary)", TRUE)
                     EXCEPT !.pc = "e2eInstall"],
                  exit(execSync(ran, "node -e (coverage summary)", FALSE), 1) }
  /\ UNCHANGED <<ruleVars, engineVars>>

e2eInstall ==
  /\ proc.pc = "e2eInstall"
  /\ proc' \in
       IF ~proc.RUN_E2E THEN {[proc EXCEPT !.pc = "dbTeardown"]}
       ELSE runOrWarn(proc, "npx playwright install --with-deps chromium",
                      "Failed to install Playwright browsers", "e2eBuild")
  /\ UNCHANGED <<ruleVars, engineVars>>

e2eBuild ==
  /\ proc.pc = "e2eBuild"
  /\ proc' \in runOrExit(proc, "npm run build", "Failed to build application", "e2eTests")
  /\ UNCHANGED <<ruleVars, engineVars>>

e2eTests ==
  /\ proc.pc = "e2eTests"
  /\ proc' \in runOrExit(proc, "npm run test:e2e", "E2E tests failed", "dbTeardown")
  /\ UNCHANGED <<ruleVars, engineVars>>

\* npm run test:db:teardown || true
dbTeardown ==
  /\ proc.pc = "dbTeardown"
  /\ proc' \in
       IF ~proc.CI_MODE THEN {[proc EXCEPT !.pc = "summary"]}
       ELSE { [execSync(proc, "npm run test:db:teardown", ok) EXCEPT !.pc = "summary"] :
              ok \in BOOLEAN }
  /\ UNCHANGED <<ruleVars, engineVars>>

\* the success message and the summary; then the coverage report is opened
\* if it is there, not in CI; a failing opener ends the script (set -e)
finalSummary ==
  /\ proc.pc = "summary"
  /\ LET p == [proc EXCEPT !.success = TRUE]
     IN  proc' \in
           IF proc.RUN_COVERAGE /\ ~proc.CI_MODE
           THEN { exit(p, 0),
                  exit(execSync(p, "open coverage/lcov-report/index.html", TRUE), 0),
                  exit(execSync(p, "open coverage/lcov-report/index.html", FALSE), 1) }
           ELSE { exit(p, 0) }
  /\ UNCHANGED <<ruleVars, engineVars>>

NextTestRunner ==
  \/ parseArguments
  \/ dbSetup
  \/ lint
  \/ typeCheck
  \/ unitTests
  \/ integrationTests
  \/ coverageReport
  \/ e2eInstall
  \/ e2eBuild
  \/ e2eTests
  \/ dbTeardown
  \/ finalSummary

SpecTestRunner == InitTestRunner /\ [][NextTestRunner]_vars

---------------------------------------------------------------------------
(* Properties.  They are stated on the page the caller holds and on the    *)
(* value the last call returned, with the literals of the specification.   *)

\* the last call was analyze(page)
Analyzed == ret.op = "analyze"

\* the last call was analyze(page) and it returned a HeuristicResult
Returned == Analyzed /\ ~Has(ret.result, "threw")

\* the page is of a type the rule applies to
ApplicablePage == page.type \in {"home", "product"}

\* page.metrics.aboveFold.ctaButtons exists
WellFormedPage ==
  /\ Has(page, "metrics")
  /\ Has(page.metrics, "aboveFold")
  /\ Has(page.metrics.aboveFold, "ctaButtons")

Buttons == page.metrics.aboveFold.ctaButtons

\* prominence as the specification defines it: the flag and the minimum size
SpecProminent(cta) ==
  cta.prominent = TRUE /\ cta.size.width >= 120 /\ cta.size.height >= 35

SkippedResult ==
  [ passed  |-> FALSE,
    score   |-> 0,
    finding |-> [null |-> TRUE],
    skipped |-> TRUE,
    reason  |-> "Rule only applies to home and product pages" ]

\* C1: on an applicable page with a non-empty ctaButtons list, full credit
\* is given only if some button has the prominent flag AND width >= 120 AND
\* height >= 35; buttons that are flagged but too small give 'hero_cta_weak'.
C1_ProminentNeedsFlagAndSize ==
  (Analyzed /\ ApplicablePage /\ WellFormedPage /\ Len(Buttons) > 0
     /\ (\A i \in 1..Len(Buttons) : ~SpecProminent(Buttons[i]))
     /\ (\E j \in 1..Len(Buttons) : Buttons[j].prominent))
  => /\ Returned
     /\ ret.result.passed = FALSE
     /\ ret.result.finding # null
     /\ ret.result.finding.ruleId = "hero_cta_weak"

\* C2: on every page whose type is not home or product, analyze returns
\* exactly the skipped result, whatever page.metrics holds.
C2_NonApplicableIsSkipped ==
  (Analyzed /\ page.type \notin {"home", "product"})
  => ret.result = SkippedResult

C2_Witness ==
  /\ Analyzed
  /\ page.type = "checkout"
  /\ WellFormedPage
  /\ Len(Buttons) > 0
  /\ SpecProminent(Buttons[1])
  /\ ret.result = SkippedResult

\* C3: on an applicable page with an empty ctaButtons list, analyze returns
\* passed=false, score=0 and a 'hero_cta_missing' finding of severity high
\* for this page, with evidence {ctaCount:0, pageType, aboveFoldHeight}.
C3_EmptyListIsMissing ==
  (Analyzed /\ ApplicablePage /\ WellFormedPage /\ Len(Buttons) = 0)
  => /\ Returned
     /\ ret.result.passed = FALSE
     /\ ret.result.score = 0
     /\ ret.result.finding # null
     /\ ret.result.finding.ruleId = "hero_cta_missing"
     /\ ret.result.finding.severity = "high"
     /\ ret.result.finding.pageId = page.id
     /\ ret.result.finding.evidence =
          [ ctaCount        |-> 0,
            pageType        |-> page.type,
            aboveFoldHeight |-> page.metrics.aboveFold.height ]

C3_Witness ==
  /\ Analyzed
  /\ page.type = "product"
  /\ page.id = "test-page-2"
  /\ WellFormedPage
  /\ Len(Buttons) = 0
  /\ page.metrics.aboveFold.height = 600
  /\ Returned
  /\ ret.result.finding # null
  /\ ret.result.finding.evidence.aboveFoldHeight = 600

\* C4: on an applicable page with at least one prominent button, analyze
\* returns passed=true, score=15, finding=null, however many non-prominent
\* buttons there are and wherever they stand in the list.
C4_ProminentPasses ==
  (Analyzed /\ ApplicablePage /\ WellFormedPage
     /\ \E i \in 1..Len(Buttons) : SpecProminent(Buttons[i]))
  => ret.result = [passed |-> TRUE, score |-> 15, finding |-> [null |-> TRUE]]

C4_Witness ==
  /\ Analyzed
  /\ ApplicablePage
  /\ WellFormedPage
  /\ Len(Buttons) = 2
  /\ ~Buttons[1].prominent
  /\ SpecProminent(Buttons[2])
  /\ Returned
  /\ ret.result.passed

\* C5: on an applicable page with a non-empty ctaButtons list holding no
\* prominent button, analyze returns passed=false, score=7 and a
\* 'hero_cta_weak' finding of severity med whose evidence counts the
\* buttons, has prominentCount 0 and lists every button in input order.
C5_NoProminentIsWeak ==
  (Analyzed /\ ApplicablePage /\ WellFormedPage /\ Len(Buttons) > 0
     /\ \A i \in 1..Len(Buttons) : ~SpecProminent(Buttons[i]))
  => /\ Returned
     /\ ret.result.passed = FALSE
     /\ ret.result.score = 7
     /\ ret.result.finding # null
     /\ ret.result.finding.ruleId = "hero_cta_weak"
     /\ ret.result.finding.severity = "med"
     /\ ret.result.finding.evidence =
          [ ctaCount       |-> Len(Buttons),
            prominentCount |-> 0,
            weakCTAs       |-> [ i \in 1..Len(Buttons) |->
                                 [ text      |-> Buttons[i].text,
                                   size      |-> Buttons[i].size,
                                   prominent |-> Buttons[i].prominent ] ] ]

\* C6: isProminentCTA(cta) is true exactly when width >= 120 and
\* height >= 35 and the prominent flag is true.
C6_HelperIsConjunction ==
  (ret.op = "isProminentCTA")
  => (ret.prominent <=>
        (ret.cta.size.width >= 120 /\ ret.cta.size.height >= 35
           /\ ret.cta.prominent = TRUE))

C6_Witness ==
  /\ ret.op = "isProminentCTA"
  /\ ret.cta.size = [width |-> 120, height |-> 35]
  /\ ret.cta.prominent
  /\ ret.prominent

\* C7: on an applicable page whose metrics, aboveFold or ctaButtons is
\* missing, analyze does not throw and returns the result of an empty list:
\* score 0 and a 'hero_cta_missing' finding.
C7_MalformedIsMissing ==
  (Analyzed /\ ApplicablePage /\ ~WellFormedPage)
  => /\ Returned
     /\ ret.result.score = 0
     /\ ret.result.finding # null
     /\ ret.result.finding.ruleId = "hero_cta_missing"

\* C8: the applicability filter runs before any access to page.metrics: on
\* a page of a non-applicable type whose metrics are missing or malformed,
\* analyze does not throw and returns the skipped result.
C8_FilterBeforeMetrics ==
  (Analyzed /\ ~ApplicablePage /\ ~WellFormedPage)
  => /\ Returned
     /\ Has(ret.result, "skipped")
     /\ ret.result.skipped = TRUE

C8_Witness ==
  /\ Analyzed
  /\ page.type = "collection"
  /\ ~Has(page, "metrics")
  /\ Returned
  /\ Has(ret.result, "skipped")
  /\ ret.result.skipped

\* C9: every result of analyze has an integer score with 0 <= score <= 15.
C9_ScoreBounds ==
  Returned => (ret.result.score \in Int /\ 0 <= ret.result.score /\ ret.result.score <= 15)

C9_Witness ==
  /\ Returned
  /\ ApplicablePage
  /\ ret.result.score > 0
  /\ ret.result.score < 15

\* C10: every result of analyze with skipped=true has score 0 and no finding.
C10_SkipImpliesZero ==
  (Returned /\ Has(ret.result, "skipped") /\ ret.result.skipped = TRUE)
  => (ret.result.score = 0 /\ ret.result.finding = [null |-> TRUE])

C10_Witness ==
  /\ Returned
  /\ page.type = "cart"
  /\ Has(ret.result, "skipped")
  /\ ret.result.skipped
  /\ ret.result.score = 0

\* C11: every result of analyze with passed=true has finding=null, and no
\* result with a finding has passed=true.
C11_PassImpliesNoFinding ==
  Returned => (ret.result.passed = TRUE => ret.result.finding = [null |-> TRUE])

C11_Witness ==
  /\ Returned
  /\ ApplicablePage
  /\ Len(Buttons) > 0
  /\ ret.result.passed
  /\ ret.result.finding = [null |-> TRUE]

\* the i-th kept call returned a result that carries a finding
HasFinding(i) ==
  /\ ~Has(calls[i].result, "threw")
  /\ calls[i].result.finding # [null |-> TRUE]

\* a result without the identity field of its finding
Content(r) ==
  IF Has(r, "threw") \/ r.finding = [null |-> TRUE] THEN r
  ELSE [r EXCEPT !.finding = [ pageId   |-> r.finding.pageId,
                               ruleId   |-> r.finding.ruleId,
                               severity |-> r.finding.severity,
                               evidence |-> r.finding.evidence ]]

SameTypeAndMetrics(p, q) ==
  /\ p.type = q.type
  /\ Has(p, "metrics") = Has(q, "metrics")
  /\ Has(p, "metrics") => p.metrics = q.metrics

\* C12 (as stated): two analyze calls on pages with equal type and equal
\* metrics return equal passed, score, skipped/reason and equal finding
\* content (pageId, ruleId, severity, evidence), differing at most in
\* finding.id.
C12_DeterministicInTypeAndMetrics ==
  \A i, j \in 1..Len(calls) :
    SameTypeAndMetrics(calls[i].page, calls[j].page)
    => Content(calls[i].result) = Content(calls[j].result)

\* C12 (amended): two analyze calls on pages with equal id, type and
\* metrics, made at any times, return results that are equal but for
\* finding.id.
C12_DeterministicInIdTypeAndMetrics ==
  \A i, j \in 1..Len(calls) :
    (calls[i].page.id = calls[j].page.id
       /\ SameTypeAndMetrics(calls[i].page, calls[j].page))
    => Content(calls[i].result) = Content(calls[j].result)

C12_Witness ==
  /\ Len(calls) = 2
  /\ calls[1].page = calls[2].page
  /\ HasFinding(1)
  /\ HasFinding(2)
  /\ calls[1].result.finding.id # calls[2].result.finding.id
  /\ Content(calls[1].result) = Content(calls[2].result)

\* C13: analyze has no side effect on its input: a step that is an analyze
\* call leaves the page (type, metrics with every button, findings) as it
\* was; the finding produced is not appended to page.findings.
C13_AnalyzeLeavesPage ==
  [][Len(calls') > Len(calls) => page' = page]_vars

C13_Witness ==
  /\ Len(calls) = 2
  /\ calls[1].page = page
  /\ calls[2].page = page
  /\ HasFinding(1)
  /\ HasFinding(2)
  /\ page.findings = <<>>
  /\ Len(page.metrics.aboveFold.ctaButtons) = 2

\* C14: a finding's id is <finding ruleId>-<page id>-<timestamp>, and any
\* two analyze calls on the same page return findings with different ids,
\* also when both are made within the same millisecond.
C14_FreshFindingIds ==
  \A i, j \in 1..Len(calls) :
    (i < j /\ calls[i].page = calls[j].page /\ HasFinding(i) /\ HasFinding(j))
    => /\ calls[j].result.finding.id[1] = calls[j].result.finding.ruleId
       /\ calls[j].result.finding.id[2] = calls[j].page.id
       /\ calls[i].result.finding.id # calls[j].result.finding.id

\* C15: no two distinct findings created by evaluating pages share the
\* same (pageId, ruleId) pair, also when a page is evaluated more than once.
C15_OneFindingPerPageAndRule ==
  \A i, j \in 1..Len(calls) :
    (HasFinding(i) /\ HasFinding(j)
       /\ calls[i].result.finding # calls[j].result.finding)
    => <<calls[i].result.finding.pageId, calls[i].result.finding.ruleId>>
         # <<calls[j].result.finding.pageId, calls[j].result.finding.ruleId>>

\* the ruleIds of a registry, in its order
RuleIds(rules) == [i \in 1..Len(rules) |-> rules[i].ruleId]

Elements(seq) == {seq[i] : i \in 1..Len(seq)}

RECURSIVE SumOfScores(_)
SumOfScores(results) ==
  IF results = <<>> THEN 0
  ELSE results[1].result.score + SumOfScores(Tail(results))

RECURSIVE SumOfMaxScores(_)
SumOfMaxScores(rules) ==
  IF rules = <<>> THEN 0
  ELSE rules[1].maxScore + SumOfMaxScores(Tail(rules))

RECURSIVE FindingsOf(_)
FindingsOf(results) ==
  IF results = <<>> THEN <<>>
  ELSE IF results[1].result.finding = [null |-> TRUE] THEN FindingsOf(Tail(results))
  ELSE <<results[1].result.finding>> \o FindingsOf(Tail(results))

\* the i-th rule of the k-th kept evaluation did not pass
NotPassed(k, i) ==
  /\ Len(evals[k].out.results) >= i
  /\ ~evals[k].out.results[i].result.passed

\* C16: evaluate(page) invokes every enabled rule exactly once, in registry
\* order, whatever the outcomes (pass, fail, skip, error) of the rules
\* invoked before it: no rule is left out or invoked twice.
C16_EveryRuleOnce ==
  \A k \in 1..Len(evals) : evals[k].out.invoked = RuleIds(evals[k].rules)

C16_Witness ==
  /\ Len(evals) >= 1
  /\ Len(evals[1].rules) = 3
  /\ NotPassed(1, 1)
  /\ NotPassed(1, 2)
  /\ evals[1].out.invoked = RuleIds(evals[1].rules)

\* C17: when a rule throws during evaluate(page), the registry records a
\* degraded finding for that rule only, with the error in its evidence, and
\* every other rule is still evaluated and its finding and score returned.
C17_ErrorIsIsolated ==
  \A k \in 1..Len(evals) :
    LET e == evals[k]
    IN  /\ Len(e.out.results) = Len(e.rules)
        /\ \A i \in 1..Len(e.rules) :
             IF Has(runRule(e.rules[i], e.page, e.t), "threw")
             THEN /\ Cardinality({ j \in 1..Len(e.out.findings) :
                                    e.out.findings[j].ruleId = e.rules[i].ruleId }) = 1
                  /\ \A j \in 1..Len(e.out.findings) :
                       e.out.findings[j].ruleId = e.rules[i].ruleId
                       => /\ Has(e.out.findings[j].evidence, "error")
                          /\ e.out.findings[j].pageId = e.page.id
             ELSE /\ Len(e.out.results) >= i
                  /\ e.out.results[i].result = runRule(e.rules[i], e.page, e.t)
                  /\ e.out.results[i].result.finding # [null |-> TRUE]
                     => e.out.results[i].result.finding \in Elements(e.out.findings)

C17_Witness ==
  /\ Len(evals) >= 1
  /\ evals[1].rules[1].kind = "throw"
  /\ evals[1].rules[2].kind = "hero"
  /\ evals[1].rules[3].kind = "fail"
  /\ evals[1].page.type = "home"
  /\ Has(evals[1].page, "metrics")
  /\ Len(evals[1].out.findings) = 3
  /\ Has(evals[1].out.findings[1].evidence, "error")

\* C18: evaluate(page) returns pageScore equal to the sum of the rules'
\* scores (at most the sum of the maxScores) and the non-null findings in
\* registry order; two evaluations of a page whose registries are
\* permutations of each other give the same pageScore and the same set of
\* findings.
C18_SumAndOrder ==
  /\ \A k \in 1..Len(evals) :
       /\ RuleIds(evals[k].rules) = [i \in 1..Len(evals[k].out.results) |->
                                       evals[k].out.results[i].rule.ruleId]
       /\ evals[k].out.pageScore = SumOfScores(evals[k].out.results)
       /\ evals[k].out.pageScore <= SumOfMaxScores(evals[k].rules)
       /\ evals[k].out.findings = FindingsOf(evals[k].out.results)
  /\ \A k, l \in 1..Len(evals) :
       (evals[k].page = evals[l].page /\ evals[k].t = evals[l].t
          /\ Elements(evals[k].rules) = Elements(evals[l].rules))
       => /\ evals[k].out.pageScore = evals[l].out.pageScore
          /\ Elements(evals[k].out.findings) = Elements(evals[l].out.findings)

C18_Witness ==
  /\ Len(evals) = 2
  /\ evals[1].rules # evals[2].rules
  /\ Len(evals[1].out.findings) >= 2
  /\ evals[1].out.findings # evals[2].out.findings
  /\ Elements(evals[1].out.findings) = Elements(evals[2].out.findings)
  /\ evals[1].out.pageScore > 0
  /\ evals[1].out.pageScore = evals[2].out.pageScore

\* the crawl has been aggregated
Aggregated == site.score # [null |-> TRUE]

\* the rule-page evaluations <<page, rule>> of a category that were not skipped
ScoredIn(c) ==
  { ij \in UNION { {<<i, j>> : j \in 1..Len(site.results[i].results)} :
                   i \in 1..Len(site.results) } :
      /\ site.results[ij[1]].results[ij[2]].rule.category = c
      /\ ~Has(site.results[ij[1]].results[ij[2]].result, "skipped") }

RECURSIVE EarnedOver(_)
EarnedOver(S) ==
  IF S = {} THEN 0
  ELSE LET ij == CHOOSE x \in S : TRUE
       IN  site.results[ij[1]].results[ij[2]].result.score + EarnedOver(S \ {ij})

RECURSIVE MaxOver(_)
MaxOver(S) ==
  IF S = {} THEN 0
  ELSE LET ij == CHOOSE x \in S : TRUE
       IN  site.results[ij[1]].results[ij[2]].rule.maxScore + MaxOver(S \ {ij})

\* v is num / den rounded to the nearest integer, halves upwards
IsRounded(v, num, den) == 2 * den * v - den <= 2 * num /\ 2 * num < 2 * den * v + den

\* C19: each category score is round(100 * earned points / max possible
\* points) over the rule-page evaluations of the category that were not
\* skipped (a skipped evaluation adds to neither sum), and lies in [0,100];
\* two pages with equal max points scoring 100% and 0% give 50.
C19_CategoryScore ==
  Aggregated =>
    \A c \in {"performance", "conversion", "trust", "mobile"} :
      ScoredIn(c) # {} =>
        /\ site.score.breakdown[c] # [null |-> TRUE]
        /\ site.score.breakdown[c].value \in 0..100
        /\ IsRounded(site.score.breakdown[c].value,
                     100 * EarnedOver(ScoredIn(c)), MaxOver(ScoredIn(c)))

C19_Witness ==
  /\ Aggregated
  /\ Len(site.pages) = 2
  /\ site.pages[1].type = "home"
  /\ site.pages[2].type = "product"
  /\ site.results[1].results[1].result.score = 15
  /\ site.results[2].results[1].result.score = 0
  /\ \E j \in 2..3 : Has(site.results[1].results[j].result, "skipped")
  /\ site.score.breakdown["conversion"] = [value |-> 50]

RECURSIVE WeightOver(_)
WeightOver(C) ==
  IF C = {} THEN 0
  ELSE LET c == CHOOSE x \in C : TRUE
       IN  site.rubric[c] + WeightOver(C \ {c})

RECURSIVE WeightedOver(_)
WeightedOver(C) ==
  IF C = {} THEN 0
  ELSE LET c == CHOOSE x \in C : TRUE
       IN  site.rubric[c] * site.score.breakdown[c].value + WeightedOver(C \ {c})

DefinedCategories ==
  {c \in {"performance", "conversion", "trust", "mobile"} : ScoredIn(c) # {}}

\* a category is undefined exactly when it has no scored evaluation, and the
\* overall score is the average of the defined categories under their
\* rubric weights renormalised
UndefinedCategoriesLeftOut ==
  /\ \A c \in {"performance", "conversion", "trust", "mobile"} :
       (ScoredIn(c) = {}) <=> (site.score.breakdown[c] = [null |-> TRUE])
  /\ IF DefinedCategories = {}
     THEN site.score.overall = [null |-> TRUE]
     ELSE /\ site.score.overall # [null |-> TRUE]
          /\ IsRounded(site.score.overall.value,
                       WeightedOver(DefinedCategories), WeightOver(DefinedCategories))

---------------------------------------------------------------------------
(* C21 *)

\* the SiteScore of the crawl when its pages are evaluated one after the
\* other, in page order, at clock reading 0
SequentialSiteScore ==
  aggregate([i \in 1..Len(site.pages) |-> evaluate(registry, site.pages[i], 0)],
            site.rubric)

\* C21: when the pages of a crawl are evaluated concurrently, the site is
\* aggregated only after every page evaluation has completed, and the
\* SiteScore is the one of the sequential evaluation, whatever the
\* interleaving and the order of completion were.
C21_BarrierAndOrderIndependence ==
  Aggregated =>
    /\ AllCompleted
    /\ Len(site.results) = Len(site.pages)
    /\ site.score = SequentialSiteScore

\* two pages completed in the reverse of page order, at different clock
\* readings, and the site has a defined overall score
C21_Witness ==
  /\ Aggregated
  /\ site.completed = <<2, 1>>
  /\ site.results[1].findings # <<>>
  /\ site.results[1].pageScore # site.results[2].pageScore
  /\ now > 0
  /\ site.score.overall # null

---------------------------------------------------------------------------
(* C26, C27 *)

\* C26: on a well-formed page every result of analyze is one of: skipped
\* (score 0, no finding), missing (score 0, finding hero_cta_missing of
\* severity high), weak (score 7, finding hero_cta_weak of severity med),
\* pass (score 15, no finding).  Hence a result that is neither skipped nor
\* passed carries a finding, passed holds exactly when the score is 15, no
\* finding is of severity low and none carries the ruleId hero_cta_detection.
C26_FourOutcomes ==
  (Analyzed /\ WellFormedPage) =>
    LET r       == ret.result
        skipped == Has(r, "skipped") /\ r.skipped
        found   == r.finding # [null |-> TRUE]
    IN  /\ Returned
        /\ \/ skipped /\ ~r.passed /\ r.score = 0 /\ ~found
           \/ /\ ~skipped /\ ~r.passed /\ r.score = 0 /\ found
              /\ r.finding.ruleId = "hero_cta_missing"
              /\ r.finding.severity = "high"
           \/ /\ ~skipped /\ ~r.passed /\ r.score = 7 /\ found
              /\ r.finding.ruleId = "hero_cta_weak"
              /\ r.finding.severity = "med"
           \/ ~skipped /\ r.passed /\ r.score = 15 /\ ~found
        /\ (~skipped /\ ~r.passed) => found
        /\ r.passed <=> r.score = 15
        /\ found => r.finding.severity # "low"
        /\ found => r.finding.ruleId # "hero_cta_detection"

\* the weak outcome on a page with two buttons
C26_Witness ==
  /\ Analyzed
  /\ WellFormedPage
  /\ ApplicablePage
  /\ Len(Buttons) = 2
  /\ ret.result.score = 7
  /\ ret.result.finding.ruleId = "hero_cta_weak"

ButtonsOf(p) == p.metrics.aboveFold.ctaButtons

\* p and q are the same applicable page but for the CTA list
SamePageButForButtons(p, q) ==
  /\ p.type \in {"home", "product"}
  /\ [p EXCEPT !.metrics.aboveFold.ctaButtons = <<>>]
       = [q EXCEPT !.metrics.aboveFold.ctaButtons = <<>>]

\* passed, score, and the severity and ruleId of the finding (if any)
Verdict(r) ==
  [ passed  |-> r.passed,
    score   |-> r.score,
    finding |-> IF r.finding = [null |-> TRUE] THEN r.finding
                ELSE [severity |-> r.finding.severity, ruleId |-> r.finding.ruleId] ]

\* C27: on an applicable page, a call on the page with one more button
\* appended never scores lower than a call on the page without it, and calls
\* on two orders of the same buttons agree on passed, score and the finding's
\* severity and ruleId.
C27_MonotoneAndOrderIndependent ==
  \A i, j \in 1..Len(calls) :
    SamePageButForButtons(calls[i].page, calls[j].page) =>
      /\ (\E cta \in CTAButtonSchema :
            ButtonsOf(calls[j].page) = Append(ButtonsOf(calls[i].page), cta))
         => calls[j].result.score >= calls[i].result.score
      /\ ButtonsOf(calls[j].page) \in PermutationsOf(ButtonsOf(calls[i].page))
         => Verdict(calls[j].result) = Verdict(calls[i].result)

\* two different orders of a mixed list, both passing
C27_WitnessReordered ==
  /\ Len(calls) = 2
  /\ SamePageButForButtons(calls[1].page, calls[2].page)
  /\ Len(ButtonsOf(calls[1].page)) = 2
  /\ ButtonsOf(calls[2].page) # ButtonsOf(calls[1].page)
  /\ ButtonsOf(calls[2].page) \in PermutationsOf(ButtonsOf(calls[1].page))
  /\ calls[1].result.score = 15
  /\ ~ButtonsOf(calls[1].page)[1].prominent

\* a weak page, then the same page with a prominent button appended
C27_Witness ==
  /\ Len(calls) = 2
  /\ SamePageButForButtons(calls[1].page, calls[2].page)
  /\ \E cta \in CTAButtonSchema :
       ButtonsOf(calls[2].page) = Append(ButtonsOf(calls[1].page), cta)
  /\ calls[1].result.score = 7
  /\ calls[2].result.score = 15

---------------------------------------------------------------------------
(* C24, C28 *)

RequestedPhase == requestedPhase(proc.phase)

TestCommands ==
  { "npm run test -- --passWithNoTests=false --silent",
    "npm run test",
    "npm run test:coverage",
    "npm run test:coverage -- --silent --json" }

\* the test suite is failing: the test run of the refactor phase failed,
\* and so did every other test run of the process
TestSuiteFailing ==
  /\ Failed("npm run test:coverage -- --silent --json")
  /\ \A i \in 1..Len(proc.log) :
       proc.log[i].command \in TestCommands => ~proc.log[i].ok

\* C24: run('refactor') exits non-zero whenever the test suite is failing.
C24_RefactorNeedsPassingTests ==
  (Exited /\ RequestedPhase = [value |-> "REFACTOR"] /\ TestSuiteFailing)
  => proc.exit.code # 0

QualityGateCommands == {"npm run type-check", "node scripts/check-coverage.js"}

\* C28: run('red') exits 1 exactly when the test command succeeds;
\* run('green') exits 1 when the tests with coverage fail and runs the
\* quality gates only after they passed; the quality gates run the type
\* check and then the coverage check, the second also when the first
\* failed, and exit 1 exactly when one of them failed; any other phase, or
\* none, prints the usage and exits 1 without running a phase.
C28_PhaseExitCodes ==
  /\ (Exited /\ RequestedPhase = [value |-> "RED"])
       => /\ WasRun("npm run test")
          /\ proc.exit.code = IF Succeeded("npm run test") THEN 1 ELSE 0
  /\ RequestedPhase = [value |-> "GREEN"]
       => /\ Failed("npm run test:coverage")
               => /\ Exited
                  /\ proc.exit.code = 1
                  /\ \A c \in QualityGateCommands : ~WasRun(c)
          /\ (\E c \in QualityGateCommands : WasRun(c))
               => Succeeded("npm run test:coverage")
          /\ Exited => WasRun("npm run test:coverage")
  /\ WasRun("node scripts/check-coverage.js") => WasRun("npm run type-check")
  /\ (Exited /\ WasRun("npm run type-check"))
       => /\ WasRun("node scripts/check-coverage.js")
          /\ proc.exit.code = IF \E c \in QualityGateCommands : Failed(c) THEN 1 ELSE 0
  /\ (Exited /\ RequestedPhase \notin { [value |-> "RED"], [value |-> "GREEN"],
                                        [value |-> "REFACTOR"], [value |-> "CHECK"] })
       => /\ proc.usage
          /\ proc.exit.code = 1
          /\ Len(proc.log) = 1
  /\ proc.usage
       => RequestedPhase \notin { [value |-> "RED"], [value |-> "GREEN"],
                                  [value |-> "REFACTOR"], [value |-> "CHECK"] }

\* run('green'): the tests passed, the type check failed, the coverage check
\* was still run and passed, and the process exited with 1
C28_Witness ==
  /\ Exited
  /\ RequestedPhase = [value |-> "GREEN"]
  /\ Succeeded("npm run test:coverage")
  /\ Failed("npm run type-check")
  /\ Succeeded("node scripts/check-coverage.js")
  /\ proc.exit.code = 1

---------------------------------------------------------------------------
(* C22 *)

\* the four command checks of the pre-commit hook
CommandChecks ==
  { "npx tsc --noEmit",
    "npm run lint",
    "npm run test:coverage -- --ci --coverage --watchAll=false --passWithNoTests=false",
    "node scripts/check-coverage.js" }

\* C22: the pre-commit run exits with 1 if and only if one of the four
\* command checks (TypeScript, ESLint, tests with coverage, coverage
\* threshold) failed, and with 0 otherwise; the five checks are all run, in
\* the order TDD compliance, TypeScript, lint, tests, coverage, whatever the
\* earlier ones gave; warnings of the TDD compliance check alone leave the
\* exit code at 0.
C22_BlockedIffCommandFailed ==
  Exited =>
    /\ proc.checks = << "checkTDDCompliance", "checkTypeScript", "checkLinting",
                        "checkTests", "checkCoverage" >>
    /\ \A c \in CommandChecks : WasRun(c)
    /\ proc.exit.code = IF \E c \in CommandChecks : Failed(c) THEN 1 ELSE 0
    /\ (proc.warnings # <<>> /\ \A c \in CommandChecks : Succeeded(c))
         => proc.exit.code = 0

\* the type check failed, the three later checks were run and passed, the
\* compliance check left a warning, and the commit is blocked
C22_Witness ==
  /\ Exited
  /\ proc.script = "pre-commit"
  /\ Failed("npx tsc --noEmit")
  /\ \A c \in CommandChecks \ {"npx tsc --noEmit"} : Succeeded(c)
  /\ proc.warnings # <<>>
  /\ proc.exit.code = 1

---------------------------------------------------------------------------
(* C23 *)

\* C23: the coverage check succeeds (exit code 0) only if the global
\* coverage is at least 90 on each of the four metrics, each core module
\* (crawler, heuristics, llm) is at least 95 on each of them, and each file
\* is at least 80 on each of them; otherwise it exits with 1.
C23_CoverageThresholds ==
  Exited =>
    LET summary == proc.summary
        met ==
          /\ proc.exists
          /\ \A m \in Metrics : summary.total[m] >= 90
          /\ \A k \in 1..Len(coreComponents) :
               LET files == {f \in DOMAIN summary.files : startsWith(f, coreComponents[k])}
               IN  files # {} =>
                     \A m \in Metrics : roundedAverage(summary, files, m) >= 9500
          /\ \A f \in DOMAIN summary.files : \A m \in Metrics : summary.files[f][m] >= 80
    IN  /\ proc.exit.code = 0 => met
        /\ proc.exit.code # 0 => proc.exit.code = 1

---------------------------------------------------------------------------
(* C29 *)

Settled == proc.pc = "settled"

\* the callbacks called before cleanup
CalledInTry == SelectSeq(proc.called, LAMBDA c : c # "cleanup")

\* the error of the first of setup, execute, assert that threw, if one did
FirstError ==
  LET tc == proc.testCase
  IN  IF tc.setup # undefined /\ tc.setup.throws THEN [threw |-> "setup error"]
      ELSE IF tc.execute.throws THEN [threw |-> "execute error"]
      ELSE IF tc.execute.result \notin tc.assert.accepts THEN [threw |-> "assert error"]
      ELSE undefined

\* setup (if given), execute, assert were called in that order, up to and
\* including the first that threw
CalledInOrderUpToFirstThrow ==
  LET tc    == proc.testCase
      given == IF tc.setup = undefined THEN <<>> ELSE <<"setup">>
  IN  CalledInTry =
        IF FirstError = [threw |-> "setup error"] THEN <<"setup">>
        ELSE IF FirstError = [threw |-> "execute error"] THEN given \o <<"execute">>
        ELSE given \o <<"execute", "assert">>

\* cleanup, when given, was called exactly once, after all the others
CleanupOnceAtTheEnd ==
  IF proc.testCase.cleanup = undefined THEN proc.called = CalledInTry
  ELSE proc.called = CalledInTry \o <<"cleanup">>

\* C29 (as stated): runPhase calls setup, execute, assert in that order and
\* stops at the first that throws; cleanup, when given, runs exactly once
\* after them on every path; an error from setup, execute or assert reaches
\* the caller in every phase; a run without such an error returns execute's
\* result, in the RED phase too.
C29_CleanupAndRethrow ==
  Settled =>
    /\ CalledInOrderUpToFirstThrow
    /\ CleanupOnceAtTheEnd
    /\ FirstError # undefined => proc.settled = FirstError
    /\ (FirstError = undefined /\ ~(proc.testCase.cleanup # undefined
                                     /\ proc.testCase.cleanup.throws))
         => proc.settled = [returned |-> proc.testCase.execute.result]

\* C29 (amended): as above, but when cleanup itself throws, the caller
\* receives the error of cleanup in place of the error or of the result.
C29_CleanupAndRethrowUnlessCleanupThrows ==
  Settled =>
    /\ CalledInOrderUpToFirstThrow
    /\ CleanupOnceAtTheEnd
    /\ IF proc.testCase.cleanup # undefined /\ proc.testCase.cleanup.throws
       THEN proc.settled = [threw |-> "cleanup error"]
       ELSE IF FirstError # undefined THEN proc.settled = FirstError
       ELSE proc.settled = [returned |-> proc.testCase.execute.result]

\* RED phase: assert rejected the result of execute, cleanup ran once and
\* the assert error reached the caller
C29_Witness ==
  /\ Settled
  /\ proc.testCase.phase = "RED"
  /\ proc.called = <<"setup", "execute", "assert", "cleanup">>
  /\ proc.settled = [threw |-> "assert error"]

---------------------------------------------------------------------------
(* C25, C30 *)

\* the options given on the command line
Given == {proc.arguments[k] : k \in 1..Len(proc.arguments)}

TestStages == {"unit", "integration", "e2e", "coverage"}

\* the stages an option is documented to switch off
DisabledBy(option) ==
  CASE option = "--unit-only"        -> {"integration", "e2e"}
    [] option = "--integration-only" -> {"unit", "e2e"}
    [] option = "--e2e-only"         -> {"unit", "integration", "coverage"}
    [] option = "--no-coverage"      -> {"coverage"}
    [] option = "--watch"            -> {"e2e"}
    [] OTHER                         -> {}

DisabledByGiven == UNION {DisabledBy(option) : option \in Given}

DisabledByParsed == UNION {DisabledBy(proc.arguments[k]) : k \in 1..proc.parsed}

StageRan(stage) ==
  CASE stage = "unit" ->
         WasRun("npm run test:unit") \/ WasRun("npm run test:unit -- --watch")
    [] stage = "integration" ->
         WasRun("npm run test:integration") \/ WasRun("npm run test:integration -- --watch")
    [] stage = "coverage" -> WasRun("npm run test:coverage")
    [] stage = "e2e" ->
         \/ WasRun("npx playwright install --with-deps chromium")
         \/ WasRun("npm run build")
         \/ WasRun("npm run test:e2e")

\* with --unit-only neither the integration stage, nor the E2E stage, nor
\* the set-up of the test database is run
UnitOnlyRunsUnitOnly ==
  "--unit-only" \in Given =>
    /\ ~StageRan("integration")
    /\ ~StageRan("e2e")
    /\ ~WasRun("npm run test:db:setup")

\* the run came to its end with exit code 0 and was not a call for help
EndedWell == Exited /\ proc.exit.code = 0 /\ "--help" \notin Given

\* C25 (as stated): with --unit-only, of the unit, integration and E2E
\* stages only the unit stage runs and the test database is not set up; for
\* every sequence of options the stages that run are exactly those that
\* none of the options given disables.
C25_StagesRunAreThoseNotDisabled ==
  /\ UnitOnlyRunsUnitOnly
  /\ EndedWell => \A stage \in TestStages : StageRan(stage) <=> stage \notin DisabledByGiven

\* C25 (amended): with --unit-only, of the unit, integration and E2E
\* stages only the unit stage runs and the test database is not set up; no
\* option switches a stage on again: after any options the stages switched
\* on are exactly those that none of them disables; and without --watch
\* these are exactly the stages that run.
C25_StagesRunAreThoseNotDisabledUnlessWatch ==
  /\ UnitOnlyRunsUnitOnly
  /\ proc.RUN_UNIT        <=> "unit" \notin DisabledByParsed
  /\ proc.RUN_INTEGRATION <=> "integration" \notin DisabledByParsed
  /\ proc.RUN_E2E         <=> "e2e" \notin DisabledByParsed
  /\ proc.RUN_COVERAGE    <=> "coverage" \notin DisabledByParsed
  /\ \A stage \in TestStages : StageRan(stage) => stage \notin DisabledByGiven
  /\ (EndedWell /\ "--watch" \notin Given)
       => \A stage \in TestStages : StageRan(stage) <=> stage \notin DisabledByGiven

\* --unit-only alone: the unit tests and the coverage run were made, the
\* database was not set up, and the run ended with exit code 0
C25_Witness ==
  /\ proc.script = "test-runner"
  /\ proc.arguments = <<"--unit-only">>
  /\ EndedWell
  /\ proc.success
  /\ StageRan("unit")
  /\ StageRan("coverage")
  /\ ~WasRun("npm run test:db:setup")

\* the place of a stage's command in the order of the stages; 0 for a
\* command that is no stage of its own
StageRank(command) ==
  CASE command = "npm run test:db:setup"    -> 1
    [] command = "npm run lint"             -> 2
    [] command = "npm run type-check"       -> 3
    [] command \in {"npm run test:unit", "npm run test:unit -- --watch"} -> 4
    [] command \in {"npm run test:integration",
                    "npm run test:integration -- --watch"} -> 5
    [] command = "npm run test:coverage"    -> 6
    [] command = "npm run build"            -> 7
    [] command = "npm run test:e2e"         -> 8
    [] command = "npm run test:db:teardown" -> 9
    [] OTHER                                -> 0

StageCommands == {proc.log[k].command : k \in 1..Len(proc.log)}

\* the stages whose failure is an error
FatalRanks == {1, 2, 3, 4, 5, 7, 8}

\* the stages were run in the fixed order, lint, type check and teardown in
\* CI mode only
StagesInOrder ==
  /\ \A i, j \in 1..Len(proc.log) :
       (i < j /\ StageRank(proc.log[i].command) # 0 /\ StageRank(proc.log[j].command) # 0)
       => StageRank(proc.log[i].command) < StageRank(proc.log[j].command)
  /\ \A k \in 1..Len(proc.log) :
       StageRank(proc.log[k].command) \in {2, 3, 9} => "--ci" \in Given
  /\ WasRun("npm run type-check") => Succeeded("npm run lint")

\* a failed fatal stage is the last command of the run, which ends with 1
FatalFailureEndsRun ==
  \A k \in 1..Len(proc.log) :
    (StageRank(proc.log[k].command) \in FatalRanks /\ ~proc.log[k].ok)
    => /\ k = Len(proc.log)
       /\ Exited
       /\ proc.exit.code = 1
       /\ ~proc.success

\* a failed coverage run is warned about and does not end the run
FailedCoverageOnlyWarns ==
  Failed("npm run test:coverage")
  => /\ \E k \in 1..Len(proc.warnings) :
          proc.warnings[k] = "Coverage report generation failed"
     /\ proc.pc # "coverage"
     /\ (Exited /\ ~proc.success)
          => \E k \in 1..Len(proc.log) :
               StageRank(proc.log[k].command) \in FatalRanks /\ ~proc.log[k].ok

\* the database is set up before any integration or E2E run
SetupBeforeIntegrationAndE2E ==
  (StageRan("integration") \/ StageRan("e2e")) => Succeeded("npm run test:db:setup")

\* C30 (as stated): the enabled stages run in the fixed order; a failure of
\* database setup, lint, type-check, unit, integration, build or E2E ends
\* the run with exit code 1 before any later stage; a failed coverage run
\* only warns; database setup precedes any integration or E2E run; the
\* final success message is printed only when no stage failed.
C30_StagesInOrderAndSuccessOnlyIfNoneFailed ==
  /\ StagesInOrder
  /\ FatalFailureEndsRun
  /\ FailedCoverageOnlyWarns
  /\ SetupBeforeIntegrationAndE2E
  /\ proc.success
       => \A k \in 1..Len(proc.log) :
            StageRank(proc.log[k].command) # 0 => proc.log[k].ok

\* C30 (amended): as above, but the final success message is printed only
\* when none of database setup, lint, type-check, unit, integration, build
\* or E2E failed: it is printed after a failed coverage run or teardown.
C30_StagesInOrderAndSuccessOnlyIfNoFatalFailed ==
  /\ StagesInOrder
  /\ FatalFailureEndsRun
  /\ FailedCoverageOnlyWarns
  /\ SetupBeforeIntegrationAndE2E
  /\ proc.success
       => \A k \in 1..Len(proc.log) :
            StageRank(proc.log[k].command) \in FatalRanks => proc.log[k].ok

\* a CI run in which every stage was run, in order, the coverage run failed
\* and the success message was printed
C30_Witness ==
  /\ proc.script = "test-runner"
  /\ Exited
  /\ proc.success
  /\ Failed("npm run test:coverage")
  /\ { StageRank(c) : c \in StageCommands } \ {0} = 1..9

====
